---- MODULE Spec2Model ----
(***************************************************************************)
(* A model of the AI-town agent operations (convex/aiTown/agentOperations) *)
(* and of the movement orchestration (movePlayer / stopPlayer).            *)
(*                                                                         *)
(* Conventions.  An optional value (undefined | v) is the set {} or {v}.   *)
(* An error is its message, and a message is the set of the phrases that   *)
(* String.includes finds in it; NoError is the empty set.  A coordinate is *)
(* an integer number of 1/Scale tiles, so that x is integral in the        *)
(* program exactly when Scale divides it here.                             *)
(***************************************************************************)
EXTENDS Integers, Sequences, FiniteSets, TLC

\* ------------------------------------------------------------------ bounds

\* Number of concurrent action workers.
NumWorkers == 2
\* Map sides range over 1..MaxSide tiles.
MaxSide == 3
\* Sub-tile resolution of a coordinate.
Scale == 2
\* Number of entries of the ACTIVITIES table.
NumActivities == 2
\* listPointsOfInterest returns at most MaxPois points.
MaxPois == 2
\* Number of players in the world.
NumPlayers == 2
\* Number of conversations started in one behaviour.
MaxConversations == 2
\* Number of findRoute calls in one behaviour.
MaxCalls == 2
\* Number of path-cache operations in one behaviour.
MaxOps == 4
MaxPoiCalls == 3
\* Rows of the worldStatus table.
NumWorlds == 2

Workers == 1..NumWorkers

\* ------------------------------------------------------- program constants

\* sendInputWithRetry's default maxAttempts.
maxAttempts == 8
\* agentRememberConversation's maxAttempts for the read.
readMaxAttempts == 6

\* ---------------------------------------------------------------- messages

Undefined == {}
NoError == {}
OCC_PHRASE == "Documents read from or written to the \"inputs\" table changed"
\* The write-conflict error Convex raises for the inputs table.
OCCError == {OCC_PHRASE}
\* A write conflict on another table: the phrase names that table.
OtherTableConflict == {"Documents read from or written to the \"engines\" table changed"}
ConversationNotFound == {"Conversation", "not found"}
WorldNotFound == {"World", "not found"}
EngineNotFound == {"Engine", "not found"}
InternalError == {"Internal server error"}

includes(message, phrase) == phrase \in message

\* ------------------------------------------------------------------- state

VARIABLES
  pc,        \* pc[w]: where worker w stands in its action
  attempt,   \* sendInputWithRetry's local `attempt`
  stale,     \* stale[w]: the inputs table changed since w's mutation read it
  calls,     \* number of ctx.runMutation(sendInput) calls w has made
  sleeps,    \* number of backoff sleeps w has finished or is in
  err,       \* the error w's action threw (NoError while none)
  errLog,    \* the messages sendInputWithRetry caught, in order
  params,    \* the params of w's sendInputWithRetry call
  inputs,    \* the world's input log
  submits,   \* number of sendInputWithRetry calls w's action has made
  args,      \* args[w]: the arguments of w's agentDoSomething
  now,       \* now[w]: the Date.now() the handler read at its start
  picked,    \* what w's handler chose before its sleep (poi, activity, invitee)
  searched,  \* searched[w]: the handler ran findConversationCandidate
  observed,  \* observed[w]: "none", or how agentInteractWithPoi ended ("ok", "failed")
  poiActions, \* the poiActions table: the observations logged
  readAttempt, \* agentRememberConversation's local `attempt`
  reads,     \* number of rememberConversation calls w has made
  readErrLog, \* the messages agentRememberConversation caught, in order
  readOk,    \* readOk[w]: a rememberConversation call of w has succeeded
  players,   \* game.world.players: id -> Player
  conversations, \* game.world.conversations: the live conversations
  lastCall,  \* the last movePlayer / stopPlayer call, the player before it, its error
  view,      \* the game a front end last rendered: its conversations
  nextConversationId, \* the id the next conversation gets
  lastInput, \* the name of the input the engine applied last, whether it took
             \* effect, and whether a party it names was in a conversation
  worldMap,  \* game.worldMap: width, height, objectTiles
  routePc,   \* where findRoute is: "idle", "search" (the while loop), "build"
  call,      \* the findRoute call: its arguments, its cache key, the world it saw,
             \* the age of the cache entry it found
  current,   \* findRoute's `current`: a candidate, or undefined
  bestCandidate, \* findRoute's `bestCandidate`
  minheap,   \* the candidates in findRoute's heap
  minDistances, \* the per-cell table the search works on
  pools,     \* minDistancesPool: the table between two searches
  pathfindingCache, \* the cache's Map, in insertion order
  dateNow,   \* the reading of Date.now()
  result,    \* what the last findRoute call returned
  fresh,     \* what the search of the last call computed (also run on a hit)
  ties,      \* the heap held several candidates of least cost at some pop
  callsMade, \* the number of findRoute calls returned
  previous,  \* the call before the last one: its key and what it returned
  lookup,    \* the last operation on the path cache alone: get or set, its key,
             \* what it found, the Map before it, Date.now()
  usage,     \* per key number: when it was stored (Date.now()), and the numbers
             \* of the operations that inserted it and last stored or hit it
  lastHit,   \* the key number of the latest cache hit
  opsMade,   \* cache operations so far
  worldStatus, \* the worldStatus table: per world its status and lastViewed
  engines,     \* the engines table: per world its engine, if the row exists
  worldCall,   \* the last world-lifecycle step: its name, argument, Date.now(),
               \* outcome, the statuses and the engine calls before it and the
               \* engines it started, stopped and kicked
  engineCalls, \* per world: which of startEngine and stopEngine was called
               \* for it last
  backoff,         \* one sendInputWithRetry call seen by its waits: attempt,
                   \* delayMs, the waits slept so far, how it ended
  maps,            \* the maps table: per world its map, if it has one
  pointsOfInterest, \* the pointsOfInterest table, in insertion order
  poiCall          \* the last mutation on pointsOfInterest: its name and
                   \* arguments, the table before it, the rows it updated

retryVars == <<pc, attempt, stale, calls, sleeps, err, errLog, params, inputs, submits>>
doVars == <<args, now, picked, searched, observed, poiActions>>
rememberVars == <<readAttempt, reads, readErrLog, readOk>>
moveVars == <<players, conversations, lastCall>>
convVars == <<view, nextConversationId, lastInput>>
\* The groups of the later sections.
routeVars == <<worldMap, routePc, call, current, bestCandidate, minheap, minDistances,
               pools, pathfindingCache, dateNow, result, fresh, ties, callsMade, previous>>
cacheVars == <<lookup, usage, lastHit, opsMade>>
worldVars == <<worldStatus, engines, worldCall, engineCalls>>
backoffVars == <<backoff>>
poiVars == <<maps, pointsOfInterest, poiCall>>
dataVars == <<backoffVars, poiVars>>
adminVars == <<cacheVars, worldVars, dataVars>>
laterVars == <<convVars, routeVars, adminVars>>
\* What neither sendInputWithRetry nor agentDoSomething touches.
others == <<rememberVars, moveVars, laterVars>>
vars == <<retryVars, doVars, rememberVars, moveVars, laterVars>>

\* ------------------------------------------------- sendInputWithRetry

NoParams == [name |-> "", operationId |-> 0, agentId |-> 0,
             destination |-> Undefined, activity |-> Undefined, invitee |-> Undefined]

isOCC(message) == includes(message, OCC_PHRASE)

GiveUp_OffByOne(message, att) == ~isOCC(message) \/ att >= maxAttempts
GiveUp_RetryAll(message, att) == att >= maxAttempts - 1
\* The catch block's test: rethrow unless this is a write conflict with attempts left.
GiveUp(message, att) == ~isOCC(message) \/ att >= maxAttempts - 1

AfterSuccess_Loop == "call"
\* `return await ctx.runMutation(...)`: a successful mutation ends the loop.
AfterSuccess == "returned"

\* The errors a sendInput call can fail with besides a conflict on the inputs table.
SendInputFaults == {OtherTableConflict, WorldNotFound, InternalError}

\* The outcome of the sendInput mutation: a fault, a detected conflict, or the append.
sendInputOutcome(w, fault) ==
  IF fault # NoError THEN fault
  ELSE IF stale[w] THEN OCCError
  ELSE NoError

\* A committed write to the inputs table invalidates every mutation in flight.
Invalidate(w) ==
  [v \in Workers |-> IF v # w /\ pc[v] = "mutation" THEN TRUE ELSE stale[v]]

\* Line 30: the mutation starts and reads the inputs table.
RunMutation(w) ==
  /\ pc[w] = "call"
  /\ pc' = [pc EXCEPT ![w] = "mutation"]
  /\ calls' = [calls EXCEPT ![w] = @ + 1]
  /\ stale' = [stale EXCEPT ![w] = FALSE]
  /\ UNCHANGED <<attempt, sleeps, err, errLog, params, inputs, submits>>
  /\ UNCHANGED <<doVars, others>>

\* Lines 30-37: the mutation ends; on an error the catch block decides.
MutationDone(w) ==
  /\ pc[w] = "mutation"
  /\ \E fault \in SendInputFaults \cup {NoError} :
       LET e == sendInputOutcome(w, fault) IN
       IF e = NoError
       THEN /\ inputs' = Append(inputs, params[w])
            /\ stale' = Invalidate(w)
            /\ pc' = [pc EXCEPT ![w] = AfterSuccess]
            /\ UNCHANGED <<attempt, calls, sleeps, err, errLog, params>>
       ELSE /\ errLog' = [errLog EXCEPT ![w] = Append(@, e)]
            /\ IF GiveUp(e, attempt[w])
               THEN /\ pc' = [pc EXCEPT ![w] = "thrown"]
                    /\ err' = [err EXCEPT ![w] = e]
                    /\ UNCHANGED sleeps
               ELSE /\ pc' = [pc EXCEPT ![w] = "sleep"]
                    /\ sleeps' = [sleeps EXCEPT ![w] = @ + 1]
                    /\ UNCHANGED err
            /\ UNCHANGED <<attempt, stale, calls, params, inputs>>
  /\ UNCHANGED <<submits, doVars, others>>

\* Lines 37-39: the sleep ends, attempt += 1, and the loop goes round.
Wake(w) ==
  /\ pc[w] = "sleep"
  /\ attempt' = [attempt EXCEPT ![w] = @ + 1]
  /\ pc' = [pc EXCEPT ![w] = "call"]
  /\ UNCHANGED <<stale, calls, sleeps, err, errLog, params, inputs, submits>>
  /\ UNCHANGED <<doVars, others>>

\* Another writer (the engine, a human's input) writes the inputs table.
ConflictingWrite ==
  /\ \E w \in Workers : pc[w] = "mutation" /\ ~stale[w]
  /\ stale' = [v \in Workers |-> IF pc[v] = "mutation" THEN TRUE ELSE stale[v]]
  /\ UNCHANGED <<pc, attempt, calls, sleeps, err, errLog, params, inputs, submits>>
  /\ UNCHANGED <<doVars, others>>

sendInputWithRetry(w) == RunMutation(w) \/ MutationDone(w) \/ Wake(w)

NoArgs == [worldId |-> 0, operationId |-> 0]

\* The agentDoSomething state of a specification that runs none.
DoIdle ==
  /\ args = [w \in Workers |-> NoArgs]
  /\ now = [w \in Workers |-> 0]
  /\ picked = [w \in Workers |-> Undefined]
  /\ searched = [w \in Workers |-> FALSE]
  /\ observed = [w \in Workers |-> "none"]
  /\ poiActions = 0

\* The agentRememberConversation state of a specification that runs none.
RememberIdle ==
  /\ readAttempt = [w \in Workers |-> 0]
  /\ reads = [w \in Workers |-> 0]
  /\ readErrLog = [w \in Workers |-> <<>>]
  /\ readOk = [w \in Workers |-> FALSE]

NoCall == [op |-> "none", player |-> 0, destination |-> Undefined, allow |-> Undefined,
           now |-> Undefined, before |-> Undefined, threw |-> NoError]

\* The world of a specification that moves nobody.
MoveIdle ==
  /\ players = <<>>
  /\ conversations = {}
  /\ lastCall = NoCall

NoInput == [name |-> "", playerId |-> 0, invitee |-> 0, conversationId |-> 0]

\* The front end and input state of a specification that sends no
\* conversation input.
ConvIdle ==
  /\ view = {}
  /\ nextConversationId = 1
  /\ lastInput = [name |-> "", applied |-> FALSE, busy |-> FALSE]

NoResult == [kind |-> "none", path |-> <<>>, newDestination |-> Undefined]
NoSearch == [kind |-> "none", path |-> <<>>, newDestination |-> Undefined, densePath |-> <<>>]
NoRouteCall == [now |-> 0, playerId |-> 0, position |-> Undefined, destination |-> Undefined,
                key |-> Undefined, hit |-> FALSE, others |-> {}, dateNow |-> 0, age |-> Undefined]

\* The pathfinding state of a specification that finds no route.
RouteIdle ==
  /\ worldMap = [width |-> 0, height |-> 0, objectTiles |-> <<>>]
  /\ routePc = "idle"
  /\ call = NoRouteCall
  /\ current = Undefined
  /\ bestCandidate = Undefined
  /\ minheap = {}
  /\ minDistances = <<>>
  /\ pools = <<>>
  /\ pathfindingCache = <<>>
  /\ dateNow = 0
  /\ result = NoResult
  /\ fresh = NoSearch
  /\ ties = FALSE
  /\ callsMade = 0
  /\ previous = Undefined

NoLookup == [op |-> "none", key |-> 0, found |-> Undefined, before |-> <<>>, clock |-> 0]

\* The path cache's own state in a specification that does not drive it.
CacheIdle ==
  /\ lookup = NoLookup
  /\ usage = <<>>
  /\ lastHit = Undefined
  /\ opsMade = 0

NoWorldCall == [op |-> "none", worldId |-> 0, now |-> 0, outcome |-> "ok",
                before |-> <<>>, callsBefore |-> <<>>,
                started |-> {}, stopped |-> {}, kicked |-> {}]

\* The world tables in a specification that does not drive them.
WorldIdle ==
  /\ worldStatus = <<>>
  /\ engines = <<>>
  /\ worldCall = NoWorldCall
  /\ engineCalls = <<>>

NoBackoff == [attempt |-> 0, delayMs |-> 0, waits |-> <<>>, outcome |-> "none"]

BackoffIdle == backoff = NoBackoff

NoPoiCall == [op |-> "none", worldId |-> 0, places |-> <<>>, before |-> <<>>, updated |-> 0,
              again |-> FALSE, imported |-> {}, backfills |-> 0, calls |-> 0]

PoiIdle ==
  /\ maps = <<>>
  /\ pointsOfInterest = <<>>
  /\ poiCall = NoPoiCall

DataIdle == BackoffIdle /\ PoiIdle

AdminIdle == CacheIdle /\ WorldIdle /\ DataIdle

LaterIdle == ConvIdle /\ RouteIdle /\ AdminIdle

RetryStart ==
  /\ attempt = [w \in Workers |-> 0]
  /\ stale = [w \in Workers |-> FALSE]
  /\ calls = [w \in Workers |-> 0]
  /\ sleeps = [w \in Workers |-> 0]
  /\ err = [w \in Workers |-> NoError]
  /\ errLog = [w \in Workers |-> <<>>]
  /\ inputs = <<>>

\* Every worker submits one input of its own, all at once.
InitRetry ==
  /\ RetryStart
  /\ DoIdle
  /\ RememberIdle
  /\ MoveIdle
  /\ LaterIdle
  /\ submits = [w \in Workers |-> 1]
  /\ pc = [w \in Workers |-> "call"]
  /\ params = [w \in Workers |->
       [NoParams EXCEPT !.name = "finishDoSomething", !.operationId = w, !.agentId = w]]

NextRetry ==
  \/ \E w \in Workers : RunMutation(w)
  \/ \E w \in Workers : MutationDone(w)
  \/ \E w \in Workers : Wake(w)
  \/ ConflictingWrite

SpecRetry == InitRetry /\ [][NextRetry]_vars

\* ------------------------------------------------------------ C1 .. C3

Final(w) == pc[w] \in {"returned", "thrown"}

\* Every sendInput call w has made so far failed with the write conflict.
EveryCallConflicted(w) ==
  /\ Len(errLog[w]) = calls[w]
  /\ \A i \in 1..Len(errLog[w]) : errLog[w][i] = OCCError

\* C1: sendInputWithRetry never makes more than maxAttempts calls, and a
\* submission all of whose calls failed with the write conflict has, once it
\* ended, made exactly maxAttempts calls with a sleep between each two, and
\* has thrown the conflict error of the last call.
C1_RetryBound ==
  \A w \in Workers :
    /\ calls[w] <= maxAttempts
    /\ (Final(w) /\ EveryCallConflicted(w)) =>
         /\ pc[w] = "thrown"
         /\ calls[w] = maxAttempts
         /\ sleeps[w] = maxAttempts - 1
         /\ attempt[w] = maxAttempts - 1
         /\ err[w] = errLog[w][maxAttempts]
         /\ isOCC(err[w])

C1_Witness ==
  \E w \in Workers :
    pc[w] = "thrown" /\ EveryCallConflicted(w) /\ calls[w] = maxAttempts

\* The inputs of the log that are worker w's submission.
Appended(w) == {i \in 1..Len(inputs) : inputs[i] = params[w]}

\* C2: with the workers submitting concurrently, a submission that returned
\* has exactly one input in the log, one that threw has none, and none ever
\* has two; the log holds nothing else.
C2_ExactlyOnce ==
  /\ \A w \in Workers :
       /\ pc[w] = "returned" => Cardinality(Appended(w)) = 1
       /\ pc[w] = "thrown" => Cardinality(Appended(w)) = 0
       /\ Cardinality(Appended(w)) <= 1
  /\ Len(inputs) = Cardinality({w \in Workers : pc[w] = "returned"})

\* Two workers were in their mutation together, one lost to the other's
\* write, retried and returned; another submission threw.
C2_Witness ==
  \E w, v \in Workers :
    /\ w # v
    /\ pc[w] = "returned" /\ calls[w] > 1 /\ Cardinality(Appended(w)) = 1
    /\ pc[v] = "thrown" /\ Appended(v) = {}
    /\ Len(inputs) = 1

\* C3: an error that is not the write conflict is the last thing its
\* submission does: it is the error thrown, no call follows it and no sleep.
C3_OnlyConflictsRetried ==
  \A w \in Workers : \A i \in 1..Len(errLog[w]) :
    ~isOCC(errLog[w][i]) =>
      /\ i = Len(errLog[w])
      /\ pc[w] = "thrown"
      /\ err[w] = errLog[w][i]
      /\ calls[w] = i
      /\ sleeps[w] = i - 1

\* A non-conflict error after some conflicts, and one on the first call.
C3_Witness ==
  /\ \E w \in Workers :
       /\ pc[w] = "thrown" /\ ~isOCC(err[w])
       /\ calls[w] > 1 /\ calls[w] < maxAttempts
  /\ \E w \in Workers :
       pc[w] = "thrown" /\ err[w] = OtherTableConflict /\ calls[w] = 1

\* ---------------------------------------------------- agentDoSomething

\* convex/constants.ts (imported at line 13).
CONVERSATION_COOLDOWN == 15000
ACTIVITY_COOLDOWN == 10000

\* The clock readings the handler starts with.
ClockReadings == {100000}

\* JavaScript truthiness of an optional number: undefined and 0 are falsy.
Truthy(opt) == opt # Undefined /\ opt # {0}
Value(opt) == CHOOSE v \in opt : TRUE

RandomIndex_Inclusive(n) == IF n > 0 THEN 0..n ELSE n..0
\* The values Math.floor(Math.random() * n) can take, Math.random() in [0, 1).
RandomIndex(n) == IF n > 0 THEN 0..(n - 1) ELSE n..0

\* Lines 153-154.
justLeftConversation(agent, t) ==
  Truthy(agent.lastConversation)
    /\ t < Value(agent.lastConversation) + CONVERSATION_COOLDOWN
\* Lines 156-157.
recentlyAttemptedInvite(agent, t) ==
  Truthy(agent.lastInviteAttempt)
    /\ t < Value(agent.lastInviteAttempt) + CONVERSATION_COOLDOWN
\* Line 158.
recentActivity(player, t) ==
  player.activity # Undefined
    /\ t < Value(player.activity).until + ACTIVITY_COOLDOWN

\* Lines 246-252: the destinations wanderDestination can return.
wanderDestination(map) ==
  {[x |-> (1 + i) * Scale, y |-> (1 + j) * Scale] :
     i \in RandomIndex(map.width - 2), j \in RandomIndex(map.height - 2)}

Branch_WanderOnInviteCooldown(a, t) ==
  IF a.player.pathfinding = Undefined
  THEN IF recentActivity(a.player, t) \/ justLeftConversation(a.agent, t)
            \/ recentlyAttemptedInvite(a.agent, t)
       THEN "wander" ELSE "listPois"
  ELSE IF justLeftConversation(a.agent, t) \/ recentlyAttemptedInvite(a.agent, t)
       THEN "noInvitee" ELSE "findCandidate"

Branch_MovingWanders(a, t) ==
  IF recentActivity(a.player, t) \/ justLeftConversation(a.agent, t) THEN "wander"
  ELSE IF a.player.pathfinding = Undefined THEN "listPois"
  ELSE IF justLeftConversation(a.agent, t) \/ recentlyAttemptedInvite(a.agent, t)
  THEN "noInvitee"
  ELSE "findCandidate"
Branch_SearchAlways(a, t) ==
  IF a.player.pathfinding = Undefined
  THEN IF recentActivity(a.player, t) \/ justLeftConversation(a.agent, t)
       THEN "wander" ELSE "listPois"
  ELSE "findCandidate"
\* Lines 160-229: the branch the handler takes.
Branch(a, t) ==
  IF a.player.pathfinding = Undefined
  THEN IF recentActivity(a.player, t) \/ justLeftConversation(a.agent, t)
       THEN "wander" ELSE "listPois"
  ELSE IF justLeftConversation(a.agent, t) \/ recentlyAttemptedInvite(a.agent, t)
       THEN "noInvitee" ELSE "findCandidate"

finishDoSomething_PlayerId(a, destination, activity, invitee) ==
  [name |-> "finishDoSomething", operationId |-> a.operationId, agentId |-> a.player.id,
   destination |-> destination, activity |-> activity, invitee |-> invitee]
\* The params of the four sendInputWithRetry calls (lines 163-171, 186-198,
\* 204-216, 234-242); a key the call leaves out is undefined.  An activity's
\* `until` (a later clock reading plus the duration) is not modelled.
finishDoSomething(a, destination, activity, invitee) ==
  [name |-> "finishDoSomething", operationId |-> a.operationId, agentId |-> a.agent.id,
   destination |-> destination, activity |-> activity, invitee |-> invitee]

\* What the queries and the action the handler awaits can fail with.
CallFaults == {InternalError}

OnObserveError_Swallow == "poiSubmit"
\* Line 179: the action is awaited outside any try, so its error ends the handler.
OnObserveError == "thrown"

\* w's handler calls sendInputWithRetry(ctx, p).
Submit(w, p) ==
  /\ params' = [params EXCEPT ![w] = p]
  /\ submits' = [submits EXCEPT ![w] = @ + 1]
  /\ attempt' = [attempt EXCEPT ![w] = 0]
  /\ pc' = [pc EXCEPT ![w] = "call"]

\* w's handler throws e.
Throw(w, e) ==
  /\ pc' = [pc EXCEPT ![w] = "thrown"]
  /\ err' = [err EXCEPT ![w] = e]

\* Lines 149-162, 175, 221-224: the flags are computed and the branch taken.
Decide(w) ==
  /\ pc[w] = "doSomething"
  /\ pc' = [pc EXCEPT ![w] = Branch(args[w], now[w])]
  /\ UNCHANGED <<attempt, stale, calls, sleeps, err, errLog, params, inputs, submits>>
  /\ UNCHANGED <<doVars, others>>

\* Lines 162-172: after the sleep, a wander destination is submitted.
Wander(w) ==
  /\ pc[w] = "wander"
  /\ \E d \in wanderDestination(args[w].map) :
       Submit(w, finishDoSomething(args[w], {d}, Undefined, Undefined))
  /\ UNCHANGED <<stale, calls, sleeps, err, errLog, inputs>>
  /\ UNCHANGED <<doVars, others>>

\* Lines 175-177 and 202: the points are listed; a point or an activity is picked.
ListPois(w) ==
  /\ pc[w] = "listPois"
  /\ \/ \E e \in CallFaults :
          /\ Throw(w, e)
          /\ UNCHANGED picked
     \/ \E n \in 0..MaxPois, lucky \in BOOLEAN :
          IF n > 0 /\ lucky
          THEN \E i \in RandomIndex(n) :
                 /\ picked' = [picked EXCEPT ![w] = {[poi |-> i]}]
                 /\ pc' = [pc EXCEPT ![w] = "observe"]
                 /\ UNCHANGED err
          ELSE \E i \in RandomIndex(NumActivities) :
                 /\ picked' = [picked EXCEPT ![w] = {[activity |-> i]}]
                 /\ pc' = [pc EXCEPT ![w] = "idleSubmit"]
                 /\ UNCHANGED err
  /\ UNCHANGED <<attempt, stale, calls, sleeps, errLog, params, inputs, submits>>
  /\ UNCHANGED <<args, now, searched, observed, poiActions>>
  /\ UNCHANGED others

\* Lines 179-184: agentInteractWithPoi logs the observation, or fails.
Observe(w) ==
  /\ pc[w] = "observe"
  /\ \/ /\ poiActions' = poiActions + 1
        /\ observed' = [observed EXCEPT ![w] = "ok"]
        /\ pc' = [pc EXCEPT ![w] = "poiSubmit"]
        /\ UNCHANGED err
     \/ \E e \in CallFaults :
          /\ observed' = [observed EXCEPT ![w] = "failed"]
          /\ err' = [err EXCEPT ![w] = e]
          /\ pc' = [pc EXCEPT ![w] = OnObserveError]
          /\ UNCHANGED poiActions
  /\ UNCHANGED <<attempt, stale, calls, sleeps, errLog, params, inputs, submits>>
  /\ UNCHANGED <<args, now, picked, searched>>
  /\ UNCHANGED others

\* Lines 185-199: after the sleep, the thought about the point is submitted.
PoiSubmit(w) ==
  /\ pc[w] = "poiSubmit"
  /\ Submit(w, finishDoSomething(args[w], Undefined,
       {[description |-> <<"Thinking about", Value(picked[w]).poi>>, emoji |-> "compass"]},
       Undefined))
  /\ UNCHANGED <<stale, calls, sleeps, err, errLog, inputs>>
  /\ UNCHANGED <<doVars, others>>

\* Lines 203-217: after the sleep, the idle activity is submitted.
IdleSubmit(w) ==
  /\ pc[w] = "idleSubmit"
  /\ Submit(w, finishDoSomething(args[w], Undefined,
       {[description |-> <<"ACTIVITIES", Value(picked[w]).activity>>,
         emoji |-> <<"ACTIVITIES", Value(picked[w]).activity>>]},
       Undefined))
  /\ UNCHANGED <<stale, calls, sleeps, err, errLog, inputs>>
  /\ UNCHANGED <<doVars, others>>

\* Lines 224-229: findConversationCandidate returns a free player or nothing.
FindCandidate(w) ==
  /\ pc[w] = "findCandidate"
  /\ searched' = [searched EXCEPT ![w] = TRUE]
  /\ \/ \E e \in CallFaults :
          /\ Throw(w, e)
          /\ UNCHANGED picked
     \/ \E c \in {Undefined} \cup {{p} : p \in args[w].otherFreePlayers} :
          /\ picked' = [picked EXCEPT ![w] = {[invitee |-> c]}]
          /\ pc' = [pc EXCEPT ![w] = "inviteSubmit"]
          /\ UNCHANGED err
  /\ UNCHANGED <<attempt, stale, calls, sleeps, errLog, params, inputs, submits>>
  /\ UNCHANGED <<args, now, observed, poiActions>>
  /\ UNCHANGED others

\* Lines 222-223: on cooldown the invitee is undefined, without a search.
NoInvitee(w) ==
  /\ pc[w] = "noInvitee"
  /\ picked' = [picked EXCEPT ![w] = {[invitee |-> Undefined]}]
  /\ pc' = [pc EXCEPT ![w] = "inviteSubmit"]
  /\ UNCHANGED <<attempt, stale, calls, sleeps, err, errLog, params, inputs, submits>>
  /\ UNCHANGED <<args, now, searched, observed, poiActions>>
  /\ UNCHANGED others

\* Lines 233-242: after the sleep, the invitee (or none) is submitted.
InviteSubmit(w) ==
  /\ pc[w] = "inviteSubmit"
  /\ Submit(w, finishDoSomething(args[w], Undefined, Undefined, Value(picked[w]).invitee))
  /\ UNCHANGED <<stale, calls, sleeps, err, errLog, inputs>>
  /\ UNCHANGED <<doVars, others>>

agentDoSomething(w) ==
  \/ Decide(w) \/ Wander(w) \/ ListPois(w) \/ Observe(w) \/ PoiSubmit(w)
  \/ IdleSubmit(w) \/ FindCandidate(w) \/ NoInvitee(w) \/ InviteSubmit(w)

\* The optional timestamps around a cooldown's edge at clock reading t.
Stamps(t, cooldown) == {Undefined, {0}, {t - cooldown}, {t - cooldown + 1}}

\* The arguments agentDoSomething is called with at clock reading t.
DoArgs(t) ==
  [worldId : {1},
   operationId : {1, 2},
   player : [id : {1},
             pathfinding : {Undefined, {"needsPath"}},
             activity : {Undefined} \cup
               {{[until |-> u]} : u \in {t - ACTIVITY_COOLDOWN, t - ACTIVITY_COOLDOWN + 1}}],
   agent : [id : {11},
            lastConversation : Stamps(t, CONVERSATION_COOLDOWN),
            lastInviteAttempt : Stamps(t, CONVERSATION_COOLDOWN)],
   map : [width : 1..MaxSide, height : 1..MaxSide],
   otherFreePlayers : {{}, {2, 3}}]

\* The worker that runs the agent's action; the others stay idle.
Agent == 1

InitDo ==
  /\ RetryStart
  /\ pc = [w \in Workers |-> IF w = Agent THEN "doSomething" ELSE "idle"]
  /\ params = [w \in Workers |-> NoParams]
  /\ submits = [w \in Workers |-> 0]
  /\ \E t \in ClockReadings : \E a \in DoArgs(t) :
       /\ now = [w \in Workers |-> t]
       /\ args = [w \in Workers |-> a]
  /\ picked = [w \in Workers |-> Undefined]
  /\ searched = [w \in Workers |-> FALSE]
  /\ observed = [w \in Workers |-> "none"]
  /\ poiActions = 0
  /\ RememberIdle
  /\ MoveIdle
  /\ LaterIdle

NextDo ==
  \/ \E w \in Workers : Decide(w)
  \/ \E w \in Workers : Wander(w)
  \/ \E w \in Workers : ListPois(w)
  \/ \E w \in Workers : Observe(w)
  \/ \E w \in Workers : PoiSubmit(w)
  \/ \E w \in Workers : IdleSubmit(w)
  \/ \E w \in Workers : FindCandidate(w)
  \/ \E w \in Workers : NoInvitee(w)
  \/ \E w \in Workers : InviteSubmit(w)
  \/ \E w \in Workers : RunMutation(w)
  \/ \E w \in Workers : MutationDone(w)
  \/ \E w \in Workers : Wake(w)
  \/ ConflictingWrite

SpecDo == InitDo /\ [][NextDo]_vars

\* ------------------------------------------------------------ C4 .. C7

Moving(w) == args[w].player.pathfinding # Undefined
OnInviteCooldown(w) ==
  justLeftConversation(args[w].agent, now[w])
    \/ recentlyAttemptedInvite(args[w].agent, now[w])

\* C4: an agentDoSomething never calls sendInputWithRetry twice, and one that
\* completed without error called it once, which appended to the log one
\* finishDoSomething input carrying the cycle's operationId and the agent's id.
C4_OneSubmission ==
  \A w \in Workers :
    /\ submits[w] <= 1
    /\ pc[w] = "returned" =>
         /\ submits[w] = 1
         /\ Cardinality(Appended(w)) = 1
         /\ params[w].name = "finishDoSomething"
         /\ params[w].operationId = args[w].operationId
         /\ params[w].agentId = args[w].agent.id

\* A completed cycle of the point-of-interest branch whose submission was retried.
C4_Witness ==
  \E w \in Workers :
    /\ pc[w] = "returned" /\ observed[w] = "ok" /\ calls[w] > 1
    /\ args[w].operationId = 2
    /\ params[w].activity # Undefined

\* C5 as claimed: when the player is already moving, the submitted input
\* carries no destination, no activity and no invitee.
C5_MovingDoesNothing ==
  \A w \in Workers :
    (submits[w] >= 1 /\ Moving(w)) =>
      /\ params[w].destination = Undefined
      /\ params[w].activity = Undefined
      /\ params[w].invitee = Undefined

\* C5 as amended: when the player is already moving, the submitted input
\* carries no destination and no activity; it carries an invitee only when
\* the agent is on neither cooldown, and then the invitee is a free player
\* the candidate search returned.
C5_MovingOnlyInvites ==
  \A w \in Workers :
    (submits[w] >= 1 /\ Moving(w)) =>
      /\ params[w].destination = Undefined
      /\ params[w].activity = Undefined
      /\ OnInviteCooldown(w) => params[w].invitee = Undefined
      /\ params[w].invitee # Undefined =>
           /\ searched[w]
           /\ params[w].invitee = Value(picked[w]).invitee
           /\ params[w].invitee \subseteq args[w].otherFreePlayers

\* A moving player's cycle that completed with an invitee in its input.
C5_Witness ==
  \E w \in Workers :
    /\ pc[w] = "returned" /\ Moving(w)
    /\ params[w].invitee = {2}
    /\ inputs = <<params[w]>>

\* C6 as claimed: a completed cycle of an agent on neither cooldown has
\* searched for a candidate, whatever branch it took.
C6_SearchWheneverOffCooldown ==
  \A w \in Workers :
    (pc[w] = "returned" /\ ~OnInviteCooldown(w)) => searched[w]

\* C6 as amended: the candidate search is made exactly in the cycles whose
\* player is already moving and whose agent is on neither cooldown; a cycle
\* that wanders, observes a point or starts an idle activity never searches.
C6_SearchOnlyWhenMoving ==
  \A w \in Workers :
    /\ searched[w] => (Moving(w) /\ ~OnInviteCooldown(w))
    /\ submits[w] >= 1 => (searched[w] <=> (Moving(w) /\ ~OnInviteCooldown(w)))
    /\ (params[w].destination # Undefined \/ params[w].activity # Undefined)
         => ~searched[w]

\* A cycle off both cooldowns that searched, and found nobody.
C6_Witness ==
  \E w \in Workers :
    /\ pc[w] = "returned" /\ searched[w] /\ ~OnInviteCooldown(w)
    /\ params[w].invitee = Undefined /\ args[w].otherFreePlayers # {}

notFound_Either(message) == includes(message, "Conversation") \/ includes(message, "not found")
\* Line 71.
notFound(message) == includes(message, "Conversation") /\ includes(message, "not found")

ReadGiveUp_OffByOne(message, att) == ~notFound(message) \/ att >= readMaxAttempts
\* Line 72: rethrow unless the conversation was not found and attempts are left.
ReadGiveUp(message, att) == ~notFound(message) \/ att >= readMaxAttempts - 1

\* What rememberConversation can fail with.
ReadFaults == {ConversationNotFound, WorldNotFound, EngineNotFound, InternalError}

\* Lines 81-88.
finishRememberConversation(a) ==
  [NoParams EXCEPT !.name = "finishRememberConversation",
                   !.agentId = a.agentId, !.operationId = a.operationId]

\* Lines 61-67: rememberConversation is called.
Remember(w) ==
  /\ pc[w] = "remember"
  /\ pc' = [pc EXCEPT ![w] = "reading"]
  /\ reads' = [reads EXCEPT ![w] = @ + 1]
  /\ UNCHANGED <<attempt, stale, calls, sleeps, err, errLog, params, inputs, submits>>
  /\ UNCHANGED <<readAttempt, readErrLog, readOk, doVars, moveVars, laterVars>>

\* Lines 68-75: the call ends; a success leaves the loop, an error is
\* rethrown or slept on.
ReadDone(w) ==
  /\ pc[w] = "reading"
  /\ \/ /\ readOk' = [readOk EXCEPT ![w] = TRUE]
        /\ pc' = [pc EXCEPT ![w] = "rememberSubmit"]
        /\ UNCHANGED <<err, readErrLog>>
     \/ \E e \in ReadFaults :
          /\ readErrLog' = [readErrLog EXCEPT ![w] = Append(@, e)]
          /\ IF ReadGiveUp(e, readAttempt[w])
             THEN Throw(w, e)
             ELSE /\ pc' = [pc EXCEPT ![w] = "readSleep"]
                  /\ UNCHANGED err
          /\ UNCHANGED readOk
  /\ UNCHANGED <<attempt, stale, calls, sleeps, errLog, params, inputs, submits>>
  /\ UNCHANGED <<readAttempt, reads, doVars, moveVars, laterVars>>

\* Lines 75-77: the sleep ends, attempt += 1, and the read is tried again.
ReadWake(w) ==
  /\ pc[w] = "readSleep"
  /\ readAttempt' = [readAttempt EXCEPT ![w] = @ + 1]
  /\ pc' = [pc EXCEPT ![w] = "remember"]
  /\ UNCHANGED <<attempt, stale, calls, sleeps, err, errLog, params, inputs, submits>>
  /\ UNCHANGED <<reads, readErrLog, readOk, doVars, moveVars, laterVars>>

\* Lines 80-88: after the sleep, finishRememberConversation is submitted.
RememberSubmit(w) ==
  /\ pc[w] = "rememberSubmit"
  /\ Submit(w, finishRememberConversation(args[w]))
  /\ UNCHANGED <<stale, calls, sleeps, err, errLog, inputs>>
  /\ UNCHANGED <<doVars, rememberVars, moveVars, laterVars>>

agentRememberConversation(w) ==
  Remember(w) \/ ReadDone(w) \/ ReadWake(w) \/ RememberSubmit(w)

\* The arguments agentRememberConversation is called with.
RememberArgs ==
  [worldId : {1}, playerId : {1}, agentId : {11}, conversationId : {1, 2},
   operationId : {1, 2}]

InitRemember ==
  /\ RetryStart
  /\ RememberIdle
  /\ pc = [w \in Workers |-> IF w = Agent THEN "remember" ELSE "idle"]
  /\ params = [w \in Workers |-> NoParams]
  /\ submits = [w \in Workers |-> 0]
  /\ \E a \in RememberArgs : args = [w \in Workers |-> a]
  /\ now = [w \in Workers |-> 0]
  /\ picked = [w \in Workers |-> Undefined]
  /\ searched = [w \in Workers |-> FALSE]
  /\ observed = [w \in Workers |-> "none"]
  /\ poiActions = 0
  /\ MoveIdle
  /\ LaterIdle

NextRemember ==
  \/ \E w \in Workers : Remember(w)
  \/ \E w \in Workers : ReadDone(w)
  \/ \E w \in Workers : ReadWake(w)
  \/ \E w \in Workers : RememberSubmit(w)
  \/ \E w \in Workers : RunMutation(w)
  \/ \E w \in Workers : MutationDone(w)
  \/ \E w \in Workers : Wake(w)
  \/ ConflictingWrite

SpecRemember == InitRemember /\ [][NextRemember]_vars

\* ------------------------------------------------------------------ C8

\* Every rememberConversation call w has made so far reported not-found.
EveryReadNotFound(w) ==
  /\ Len(readErrLog[w]) = reads[w]
  /\ \A i \in 1..Len(readErrLog[w]) : readErrLog[w][i] = ConversationNotFound

\* C8: agentRememberConversation reads at most readMaxAttempts times, and
\* again only after a conversation-not-found error; it calls
\* sendInputWithRetry at most once, only after a read succeeded, and never
\* reads again after that; when it returns, one finishRememberConversation
\* input is in the log; when all its reads reported not-found it has read
\* readMaxAttempts times, thrown that error and submitted nothing.
C8_ReadRetried ==
  \A w \in Workers :
    /\ reads[w] <= readMaxAttempts
    /\ submits[w] <= 1
    /\ submits[w] >= 1 => readOk[w]
    /\ (readOk[w] /\ Final(w)) => submits[w] = 1
    /\ readOk[w] => reads[w] = Len(readErrLog[w]) + 1
    /\ \A i \in 1..Len(readErrLog[w]) :
         ~notFound(readErrLog[w][i]) =>
           /\ i = Len(readErrLog[w]) /\ reads[w] = i
           /\ pc[w] = "thrown" /\ err[w] = readErrLog[w][i]
    /\ pc[w] = "returned" =>
         /\ submits[w] = 1
         /\ Cardinality(Appended(w)) = 1
         /\ params[w] = finishRememberConversation(args[w])
    /\ (Final(w) /\ EveryReadNotFound(w)) =>
         /\ reads[w] = readMaxAttempts
         /\ pc[w] = "thrown" /\ err[w] = ConversationNotFound
         /\ submits[w] = 0 /\ calls[w] = 0 /\ inputs = <<>>

\* The read succeeded on its last attempt, the submission was retried after
\* a conflict without a new read, and the action returned.
C8_Witness ==
  \E w \in Workers :
    /\ pc[w] = "returned" /\ reads[w] = readMaxAttempts /\ calls[w] > 1
    /\ Len(inputs) = 1

\* ---------------------------------------------- movePlayer, stopPlayer

PlayerIds == 1..NumPlayers

Tile(n) == n * Scale
\* Math.floor(v) === v
integral(v) == v % Scale = 0
\* convex/util/geometry.ts
pointsEqual(p0, p1) == p0.x = p1.x /\ p0.y = p1.y

NonIntegralDestination == {"Non-integral destination"}
CantMoveInConversation == {"Can't move when in a conversation. Leave the conversation first!"}

inConversation_AnyStatus(convs, id) ==
  \E c \in convs : id \in DOMAIN c.participants
\* Lines 273-275.
inConversation(convs, id) ==
  \E c \in convs :
    id \in DOMAIN c.participants /\ c.participants[id] = "participating"

\* Line 276: !allowInConversation, for the optional boolean.
notAllowed(allow) == allow # {TRUE}

needsPath_KeepsStart(destination, t) ==
  {[destination |-> destination, started |-> 0, state |-> [kind |-> "needsPath"]]}
\* Lines 279-285.
needsPath(destination, t) ==
  {[destination |-> destination, started |-> t, state |-> [kind |-> "needsPath"]]}

movePlayer_ConversationFirst(convs, t, player, destination, allow) ==
  IF ~integral(destination.x) \/ ~integral(destination.y)
  THEN [threw |-> NonIntegralDestination, player |-> player]
  ELSE IF inConversation(convs, player.id) /\ notAllowed(allow)
  THEN [threw |-> CantMoveInConversation, player |-> player]
  ELSE IF pointsEqual(player.position, destination)
  THEN [threw |-> NoError, player |-> player]
  ELSE [threw |-> NoError,
        player |-> [player EXCEPT !.pathfinding = needsPath(destination, t)]]
movePlayer_EqualFirst(convs, t, player, destination, allow) ==
  IF pointsEqual(player.position, destination)
  THEN [threw |-> NoError, player |-> player]
  ELSE IF ~integral(destination.x) \/ ~integral(destination.y)
  THEN [threw |-> NonIntegralDestination, player |-> player]
  ELSE IF inConversation(convs, player.id) /\ notAllowed(allow)
  THEN [threw |-> CantMoveInConversation, player |-> player]
  ELSE [threw |-> NoError,
        player |-> [player EXCEPT !.pathfinding = needsPath(destination, t)]]
\* Lines 257-287: the error movePlayer throws (NoError when it returns) and
\* the player after the call.
movePlayer(convs, t, player, destination, allow) ==
  IF ~integral(destination.x) \/ ~integral(destination.y)
  THEN [threw |-> NonIntegralDestination, player |-> player]
  ELSE IF pointsEqual(player.position, destination)
  THEN [threw |-> NoError, player |-> player]
  ELSE IF inConversation(convs, player.id) /\ notAllowed(allow)
  THEN [threw |-> CantMoveInConversation, player |-> player]
  ELSE [threw |-> NoError,
        player |-> [player EXCEPT !.pathfinding = needsPath(destination, t)]]

stopPlayer_KeepsSpeed(player) == [player EXCEPT !.pathfinding = Undefined]
\* Lines 252-255.
stopPlayer(player) == [player EXCEPT !.pathfinding = Undefined, !.speed = 0]

MovePlayer(id, destination, allow, t) ==
  LET r == movePlayer(conversations, t, players[id], destination, allow) IN
  /\ players' = [players EXCEPT ![id] = r.player]
  /\ lastCall' = [op |-> "movePlayer", player |-> id, destination |-> {destination},
                  allow |-> allow, now |-> {t}, before |-> {players[id]},
                  threw |-> r.threw]
  /\ UNCHANGED <<conversations, retryVars, doVars, rememberVars, laterVars>>

StopPlayer(id) ==
  /\ players' = [players EXCEPT ![id] = stopPlayer(@)]
  /\ lastCall' = [NoCall EXCEPT !.op = "stopPlayer", !.player = id,
                                !.before = {players[id]}]
  /\ UNCHANGED <<conversations, retryVars, doVars, rememberVars, laterVars>>

\* Where a player stands at first: on tile (2,2), or between two tiles.
StartPositions == {[x |-> Tile(2), y |-> Tile(2)], [x |-> Tile(2) + 1, y |-> Tile(2)]}
\* The destinations asked for: (2,2), (5,2), and two that are not integral.
Destinations ==
  {[x |-> Tile(2), y |-> Tile(2)], [x |-> Tile(5), y |-> Tile(2)],
   [x |-> Tile(2) + 1, y |-> Tile(2)], [x |-> Tile(5), y |-> Tile(2) + 1]}
\* The clock readings movePlayer is called with.
MoveTimes == {1000, 2000}

\* A player at rest, or one on its way (speed in units of movementSpeed).
StartPlayers(id) ==
  {[id |-> id, position |-> pos, facing |-> [dx |-> 1, dy |-> 0],
    speed |-> m.speed, pathfinding |-> m.pathfinding] :
     pos \in StartPositions,
     m \in {[speed |-> 0, pathfinding |-> Undefined],
            [speed |-> 1,
             pathfinding |-> {[destination |-> [x |-> Tile(0), y |-> Tile(0)],
                               started |-> 0, state |-> [kind |-> "moving"]]}]}}

\* The statuses of the two parties of a live conversation.
StatusPairs ==
  {<<"walkingOver", "invited">>, <<"invited", "walkingOver">>,
   <<"walkingOver", "walkingOver">>, <<"participating", "participating">>}

\* No conversation, or one between two of the players.
StartConversations ==
  {{}} \cup
  {{[id |-> 1, participants |-> (ab[1] :> st[1]) @@ (ab[2] :> st[2])]} :
     ab \in {pair \in PlayerIds \X PlayerIds : pair[1] < pair[2]}, st \in StatusPairs}

\* The player the calls are made for; the others stand still on tiles of
\* their own and matter through the conversations they are in.
Mover == 1

Bystander(id) ==
  [id |-> id, position |-> [x |-> Tile(id), y |-> Tile(0)],
   facing |-> [dx |-> 1, dy |-> 0], speed |-> 0, pathfinding |-> Undefined]

InitMove ==
  /\ RetryStart
  /\ DoIdle
  /\ RememberIdle
  /\ pc = [w \in Workers |-> "idle"]
  /\ params = [w \in Workers |-> NoParams]
  /\ submits = [w \in Workers |-> 0]
  /\ \E m \in StartPlayers(Mover) :
       players = [id \in PlayerIds |-> IF id = Mover THEN m ELSE Bystander(id)]
  /\ conversations \in StartConversations
  /\ lastCall = NoCall
  /\ LaterIdle

NextMove ==
  \/ \E d \in Destinations, t \in MoveTimes, allow \in {Undefined, {TRUE}, {FALSE}} :
       MovePlayer(Mover, d, allow, t)
  \/ StopPlayer(Mover)

SpecMove == InitMove /\ [][NextMove]_vars

\* -------------------------------------------------------------- C9, C10

Participating(id) ==
  \E c \in conversations :
    id \in DOMAIN c.participants /\ c.participants[id] = "participating"

\* The last call was a movePlayer that passed the destination checks: its
\* destination is integral and is not where the player stands.
MoveAsked ==
  /\ lastCall.op = "movePlayer"
  /\ integral(Value(lastCall.destination).x)
  /\ integral(Value(lastCall.destination).y)
  /\ Value(lastCall.destination) # Value(lastCall.before).position

\* C9: a move (to an integral destination other than the player's position)
\* of a player that is participating in a live conversation throws, unless
\* allowInConversation is true, and leaves the player as it was; with
\* allowInConversation true, or for a player that participates in none
\* (invited and walkingOver included), it returns and sets the pathfinding
\* state.
C9_ParticipantsCannotMove ==
  MoveAsked =>
    LET id == lastCall.player
        before == Value(lastCall.before)
    IN /\ (Participating(id) /\ lastCall.allow # {TRUE}) =>
            /\ lastCall.threw = CantMoveInConversation
            /\ players[id] = before
       /\ (~Participating(id) \/ lastCall.allow = {TRUE}) =>
            /\ lastCall.threw = NoError
            /\ players[id].pathfinding =
                 needsPath(Value(lastCall.destination), Value(lastCall.now))

\* A participating player on its way was refused without the override
\* (allowInConversation false), and kept its route and speed.
C9_Witness ==
  /\ MoveAsked
  /\ Participating(lastCall.player)
  /\ lastCall.allow = {FALSE}
  /\ lastCall.threw = CantMoveInConversation
  /\ players[lastCall.player].pathfinding # Undefined
  /\ players[lastCall.player].speed = 1

\* C10: movePlayer with an integral destination equal to the player's
\* position returns without error and leaves the player, its pathfinding
\* state included, as it was, whether or not the player is participating in
\* a conversation.
C10_AlreadyThereNoOp ==
  (/\ lastCall.op = "movePlayer"
   /\ integral(Value(lastCall.destination).x)
   /\ integral(Value(lastCall.destination).y)
   /\ pointsEqual(Value(lastCall.before).position, Value(lastCall.destination)))
  => /\ lastCall.threw = NoError
     /\ players[lastCall.player] = Value(lastCall.before)

\* A participating player at (2,2) with no route asked to move to (2,2)
\* without the override: no error, still no route.
C10_Witness ==
  /\ lastCall.op = "movePlayer"
  /\ lastCall.destination = {[x |-> Tile(2), y |-> Tile(2)]}
  /\ Value(lastCall.before).position = [x |-> Tile(2), y |-> Tile(2)]
  /\ Value(lastCall.before).pathfinding = Undefined
  /\ Participating(lastCall.player)
  /\ lastCall.allow = Undefined
  /\ lastCall.threw = NoError
  /\ players[lastCall.player].pathfinding = Undefined

\* ------------------------------------------------------------ C11 - C13

\* C11: movePlayer with a destination whose x or y is not integral throws
\* "Non-integral destination" and leaves the player as it was, whatever
\* else holds of the call: the destination may be where the player stands,
\* and the player may be participating in a conversation.
C11_NonIntegralRejected ==
  (/\ lastCall.op = "movePlayer"
   /\ \/ ~integral(Value(lastCall.destination).x)
      \/ ~integral(Value(lastCall.destination).y))
  => /\ lastCall.threw = NonIntegralDestination
     /\ players[lastCall.player] = Value(lastCall.before)

\* A player standing between two tiles was asked to move to where it
\* stands: the call still threw.
C11_Witness ==
  /\ lastCall.op = "movePlayer"
  /\ ~integral(Value(lastCall.destination).x)
  /\ Value(lastCall.destination) = Value(lastCall.before).position
  /\ lastCall.threw = NonIntegralDestination
  /\ players[lastCall.player] = Value(lastCall.before)

\* C12: a movePlayer that returns, for a destination other than the
\* player's position, leaves the player with pathfinding {destination,
\* started = now, state needsPath}, whatever pathfinding it had, and with
\* the id, position, facing and speed it had.
C12_OnlyArms ==
  (/\ MoveAsked
   /\ lastCall.threw = NoError)
  => LET p == players[lastCall.player]
         before == Value(lastCall.before)
     IN /\ p.pathfinding =
             {[destination |-> Value(lastCall.destination),
               started |-> Value(lastCall.now),
               state |-> [kind |-> "needsPath"]]}
        /\ p.position = before.position
        /\ p.facing = before.facing
        /\ p.speed = before.speed
        /\ p.id = before.id

\* A player on its way to (0,0) at speed 1 was sent to (5,2) at time 2000:
\* the route it had is replaced, it has not moved and has not slowed.
C12_Witness ==
  /\ MoveAsked
  /\ lastCall.threw = NoError
  /\ lastCall.now = {2000}
  /\ Value(lastCall.before).pathfinding # Undefined
  /\ Value(lastCall.before).speed = 1
  /\ players[lastCall.player].speed = 1
  /\ Value(players[lastCall.player].pathfinding).destination = [x |-> Tile(5), y |-> Tile(2)]
  /\ Value(players[lastCall.player].pathfinding).state.kind = "needsPath"

\* C13: after stopPlayer the player has no pathfinding state and speed 0,
\* with the id, position and facing it had; stopping it once more would
\* give the same player.
C13_Stopped ==
  lastCall.op = "stopPlayer" =>
    LET p == players[lastCall.player]
        before == Value(lastCall.before)
    IN /\ p.pathfinding = Undefined
       /\ p.speed = 0
       /\ p.position = before.position
       /\ p.facing = before.facing
       /\ p.id = before.id
       /\ stopPlayer(p) = p

\* A player on its way at speed 1 was stopped.
C13_Witness ==
  /\ lastCall.op = "stopPlayer"
  /\ Value(lastCall.before).pathfinding # Undefined
  /\ Value(lastCall.before).speed = 1
  /\ players[lastCall.player].pathfinding = Undefined
  /\ players[lastCall.player].speed = 0

\* ------------------------------------------------ conversations (C14)
\* The front end is PlayerDetails.tsx. The engine's handlers of the four
\* conversation inputs are not among the sources; they follow the
\* description of the conversation state machine: a participant that leaves
\* is removed from the conversation's participants, and a conversation with
\* nobody left is archived, that is, removed from the live ones.

\* game.world.playerConversation(player): the live conversation the player
\* takes part in, if any.
playerConversation(convs, id) == {c \in convs : id \in DOMAIN c.participants}

status(c, id) == IF id \in DOMAIN c.participants THEN c.participants[id] ELSE "none"

\* Lines 30-41: while the human is in a conversation the other party is the
\* selected player (no player if the human is alone in it).
Selected(convs, human, selected) ==
  IF playerConversation(convs, human) = {} THEN {selected}
  ELSE LET c == CHOOSE c \in playerConversation(convs, human) : TRUE
       IN {id \in DOMAIN c.participants : id # human}

\* Line 69.
isMe(human, playerId) == playerId = human
\* Line 70.
canInvite(convs, human, playerId) ==
  /\ ~isMe(human, playerId)
  /\ playerConversation(convs, playerId) = {}
  /\ playerConversation(convs, human) = {}
\* Lines 71-76.
sameConversation(convs, human, playerId) ==
  /\ ~isMe(human, playerId)
  /\ playerConversation(convs, human) # {}
  /\ playerConversation(convs, playerId) # {}
  /\ \E c \in playerConversation(convs, human), d \in playerConversation(convs, playerId) :
       c.id = d.id
\* Lines 78-80.
humanStatus(convs, human) ==
  IF playerConversation(convs, human) = {} THEN "none"
  ELSE status(CHOOSE c \in playerConversation(convs, human) : TRUE, human)
playerStatus(convs, playerId) ==
  IF playerConversation(convs, playerId) = {} THEN "none"
  ELSE status(CHOOSE c \in playerConversation(convs, playerId) : TRUE, playerId)
\* Line 82.
haveInvite(convs, human, playerId) ==
  sameConversation(convs, human, playerId) /\ humanStatus(convs, human) = "invited"
\* Lines 88-91.
inConversationWithMe(convs, human, playerId) ==
  /\ sameConversation(convs, human, playerId)
  /\ playerStatus(convs, playerId) = "participating"
  /\ humanStatus(convs, human) = "participating"

humanConversationId(convs, human) ==
  (CHOOSE c \in playerConversation(convs, human) : TRUE).id

\* The inputs: any of the four, with any arguments.
ConversationIds == 1..MaxConversations
ConversationInputs ==
  {[NoInput EXCEPT !.name = "startConversation", !.playerId = p, !.invitee = q] :
     p \in PlayerIds, q \in PlayerIds}
  \cup
  {[NoInput EXCEPT !.name = n, !.playerId = p, !.conversationId = c] :
     n \in {"acceptInvite", "rejectInvite", "leaveConversation"},
     p \in PlayerIds, c \in ConversationIds}

StartAllowed_NoCheck(convs, playerId, invitee) == playerId # invitee
\* Start: nobody invites themselves, and neither party may be taking part in
\* a live conversation (a player belongs to at most one).
StartAllowed(convs, playerId, invitee) ==
  /\ playerId # invitee
  /\ playerConversation(convs, playerId) = {}
  /\ playerConversation(convs, invitee) = {}

\* The conversation without the participant; nothing if nobody remains.
Without(c, id) ==
  LET rest == DOMAIN c.participants \ {id} IN
  IF rest = {} THEN {}
  ELSE {[c EXCEPT !.participants = [q \in rest |-> c.participants[q]]]}

\* The live conversations after the engine has applied the input, and
\* whether the input took effect.
applyInput(convs, nextId, input) ==
  LET cs == {c \in convs : c.id = input.conversationId}
      c == CHOOSE c \in cs : TRUE
      p == input.playerId
  IN
  IF input.name = "startConversation" THEN
    IF StartAllowed(convs, p, input.invitee)
    THEN [applied |-> TRUE,
          conversations |-> convs \cup
            {[id |-> nextId,
              participants |-> (p :> "walkingOver") @@ (input.invitee :> "invited")]}]
    ELSE [applied |-> FALSE, conversations |-> convs]
  ELSE IF cs = {} THEN [applied |-> FALSE, conversations |-> convs]
  ELSE IF input.name = "acceptInvite" /\ status(c, p) = "invited" THEN
    [applied |-> TRUE,
     conversations |-> (convs \ {c}) \cup {[c EXCEPT !.participants[p] = "walkingOver"]}]
  ELSE IF input.name = "rejectInvite" /\ status(c, p) = "invited" THEN
    \* The inviter alone is no conversation: it is archived at once.
    [applied |-> TRUE,
     conversations |->
       IF Cardinality(DOMAIN c.participants) <= 2 THEN convs \ {c}
       ELSE (convs \ {c}) \cup Without(c, p)]
  ELSE IF input.name = "leaveConversation"
          /\ status(c, p) \in {"participating", "walkingOver"} THEN
    [applied |-> TRUE, conversations |-> (convs \ {c}) \cup Without(c, p)]
  ELSE [applied |-> FALSE, conversations |-> convs]

\* The engine's step applies the input; the submitter (useSendInput) waits
\* for it.
Deliver(input) ==
  LET r == applyInput(conversations, nextConversationId, input) IN
  /\ input.name = "startConversation" => nextConversationId <= MaxConversations
  /\ conversations' = r.conversations
  /\ nextConversationId' =
       IF input.name = "startConversation" /\ r.applied
       THEN nextConversationId + 1 ELSE nextConversationId
  /\ lastInput' = [name |-> input.name, applied |-> r.applied,
                   busy |-> \/ playerConversation(conversations, input.playerId) # {}
                            \/ /\ input.invitee \in PlayerIds
                               /\ playerConversation(conversations, input.invitee) # {}]
  /\ UNCHANGED <<view, players, lastCall>>
  /\ UNCHANGED <<retryVars, doVars, rememberVars, adminVars, routeVars>>

\* An input of another producer (an agent, another front end).
SendInput(input) == Deliver(input)

\* Lines 93-99 and the button of lines 154-166.
OnStartConversation(human, selected) ==
  \E playerId \in Selected(view, human, selected) :
    /\ canInvite(view, human, playerId)
    /\ Deliver([NoInput EXCEPT !.name = "startConversation", !.playerId = human,
                               !.invitee = playerId])

\* Lines 100-110 and the button of lines 195-207.
OnAcceptInvite(human, selected) ==
  \E playerId \in Selected(view, human, selected) :
    /\ haveInvite(view, human, playerId)
    /\ Deliver([NoInput EXCEPT !.name = "acceptInvite", !.playerId = human,
                               !.conversationId = humanConversationId(view, human)])

\* Lines 111-121 and the button of lines 208-219.
OnRejectInvite(human, selected) ==
  \E playerId \in Selected(view, human, selected) :
    /\ haveInvite(view, human, playerId)
    /\ Deliver([NoInput EXCEPT !.name = "rejectInvite", !.playerId = human,
                               !.conversationId = humanConversationId(view, human)])

\* Lines 122-132 and the button of lines 181-193.
OnLeaveConversation(human, selected) ==
  \E playerId \in Selected(view, human, selected) :
    /\ inConversationWithMe(view, human, playerId)
    /\ Deliver([NoInput EXCEPT !.name = "leaveConversation", !.playerId = human,
                               !.conversationId = humanConversationId(view, human)])

\* The component renders the game again.
Render ==
  /\ view # conversations
  /\ view' = conversations
  /\ UNCHANGED <<nextConversationId, lastInput>>
  /\ UNCHANGED <<retryVars, doVars, rememberVars, adminVars, moveVars, routeVars>>

\* Arrival: both parties are walking over and have come close; both start
\* participating and are stopped.
Arrival ==
  \E c \in conversations :
    /\ DOMAIN c.participants # {}
    /\ \A id \in DOMAIN c.participants : c.participants[id] = "walkingOver"
    /\ Cardinality(DOMAIN c.participants) = 2
    /\ conversations' = (conversations \ {c}) \cup
         {[c EXCEPT !.participants = [id \in DOMAIN c.participants |-> "participating"]]}
    /\ players' = [id \in PlayerIds |->
                     IF id \in DOMAIN c.participants THEN stopPlayer(players[id])
                     ELSE players[id]]
    /\ UNCHANGED <<lastCall, convVars>>
    /\ UNCHANGED <<retryVars, doVars, rememberVars, adminVars, routeVars>>

InitConv ==
  /\ RetryStart
  /\ DoIdle
  /\ RememberIdle
  /\ pc = [w \in Workers |-> "idle"]
  /\ params = [w \in Workers |-> NoParams]
  /\ submits = [w \in Workers |-> 0]
  /\ players = [id \in PlayerIds |-> Bystander(id)]
  /\ conversations = {}
  /\ lastCall = NoCall
  /\ LaterIdle

NextConv ==
  \/ \E human \in PlayerIds, selected \in PlayerIds :
       \/ OnStartConversation(human, selected)
       \/ OnAcceptInvite(human, selected)
       \/ OnRejectInvite(human, selected)
       \/ OnLeaveConversation(human, selected)
  \/ Render
  \/ \E input \in ConversationInputs : SendInput(input)
  \/ Arrival

SpecConv == InitConv /\ [][NextConv]_vars

floor(v) == v - (v % Scale)
abs(n) == IF n < 0 THEN 0 - n ELSE n
manhattanDistance(p0, p1) == abs(p0.x - p1.x) + abs(p0.y - p1.y)
\* distance() of two points on one grid line, which is what findRoute asks for.
distance(p0, p1) == abs(p0.x - p1.x) + abs(p0.y - p1.y)

\* Tiles per second, as a fraction.
movementSpeed == [num |-> 3, den |-> 4]
\* Tiles, as a fraction.
COLLISION_THRESHOLD == [num |-> 3, den |-> 4]

travelTime_Zero(segmentLength) == 0
\* Line 348: (segmentLength / movementSpeed) * 1000.
travelTime(segmentLength) ==
  (segmentLength * 1000 * movementSpeed.den) \div (movementSpeed.num * Scale)

\* Line 439: distance(otherPosition, position) < COLLISION_THRESHOLD.
tooClose(p0, p1) ==
  LET dx == p0.x - p1.x
      dy == p0.y - p1.y
  IN (dx * dx + dy * dy) * COLLISION_THRESHOLD.den * COLLISION_THRESHOLD.den
       < COLLISION_THRESHOLD.num * COLLISION_THRESHOLD.num * Scale * Scale

blockedWithPositions_NoPlayers(position, otherPositions, map) ==
  IF \/ position.x < 0
     \/ position.y < 0
     \/ position.x >= Tile(map.width)
     \/ position.y >= Tile(map.height)
  THEN "out of bounds"
  ELSE IF \E i \in DOMAIN map.objectTiles :
            <<floor(position.x) \div Scale, floor(position.y) \div Scale>> \in map.objectTiles[i]
  THEN "world blocked"
  ELSE "null"
blockedWithPositions_Unbounded(position, otherPositions, map) ==
  IF \E i \in DOMAIN map.objectTiles :
       <<floor(position.x) \div Scale, floor(position.y) \div Scale>> \in map.objectTiles[i]
  THEN "world blocked"
  ELSE IF \E otherPosition \in otherPositions : tooClose(otherPosition, position)
  THEN "player"
  ELSE "null"
\* Lines 426-444; a layer of objectTiles is the set of its tiles that are not -1.
blockedWithPositions(position, otherPositions, map) ==
  IF \/ position.x < 0
     \/ position.y < 0
     \/ position.x >= Tile(map.width)
     \/ position.y >= Tile(map.height)
  THEN "out of bounds"
  ELSE IF \E i \in DOMAIN map.objectTiles :
            <<floor(position.x) \div Scale, floor(position.y) \div Scale>> \in map.objectTiles[i]
  THEN "world blocked"
  ELSE IF \E otherPosition \in otherPositions : tooClose(otherPosition, position)
  THEN "player"
  ELSE "null"

\* Lines 430-437: the tiles [x][y] blockedWithPositions reads in a layer:
\* none when it has returned 'out of bounds' before.
tileLookups(position, map) ==
  IF \/ position.x < 0
     \/ position.y < 0
     \/ position.x >= Tile(map.width)
     \/ position.y >= Tile(map.height)
  THEN {}
  ELSE {<<floor(position.x) \div Scale, floor(position.y) \div Scale>>}

\* Lines 419-424.
otherPositionsOf(ps, playerId) == {ps[id].position : id \in DOMAIN ps \ {playerId}}
blocked(map, otherPositions, pos) ==
  blockedWithPositions(pos, otherPositions, map) # "null"

\* Lines 308-335: the neighbours explore() tries.
neighbors_AlwaysGrid(pos) ==
  LET x == pos.x
      y == pos.y
  IN (IF x # floor(x)
      THEN {[position |-> [x |-> floor(x), y |-> y], facing |-> [dx |-> -1, dy |-> 0]],
            [position |-> [x |-> floor(x) + Scale, y |-> y], facing |-> [dx |-> 1, dy |-> 0]]}
      ELSE {})
     \cup
     (IF y # floor(y)
      THEN {[position |-> [x |-> x, y |-> floor(y)], facing |-> [dx |-> 0, dy |-> -1]],
            [position |-> [x |-> x, y |-> floor(y) + Scale], facing |-> [dx |-> 0, dy |-> 1]]}
      ELSE {})
     \cup
     {[position |-> [x |-> x + Scale, y |-> y], facing |-> [dx |-> 1, dy |-> 0]],
      [position |-> [x |-> x - Scale, y |-> y], facing |-> [dx |-> -1, dy |-> 0]],
      [position |-> [x |-> x, y |-> y + Scale], facing |-> [dx |-> 0, dy |-> 1]],
      [position |-> [x |-> x, y |-> y - Scale], facing |-> [dx |-> 0, dy |-> -1]]}

neighbors(pos) ==
  LET x == pos.x
      y == pos.y
  IN (IF x # floor(x)
      THEN {[position |-> [x |-> floor(x), y |-> y], facing |-> [dx |-> -1, dy |-> 0]],
            [position |-> [x |-> floor(x) + Scale, y |-> y], facing |-> [dx |-> 1, dy |-> 0]]}
      ELSE {})
     \cup
     (IF y # floor(y)
      THEN {[position |-> [x |-> x, y |-> floor(y)], facing |-> [dx |-> 0, dy |-> -1]],
            [position |-> [x |-> x, y |-> floor(y) + Scale], facing |-> [dx |-> 0, dy |-> 1]]}
      ELSE {})
     \cup
     (IF x = floor(x) /\ y = floor(y)
      THEN {[position |-> [x |-> x + Scale, y |-> y], facing |-> [dx |-> 1, dy |-> 0]],
            [position |-> [x |-> x - Scale, y |-> y], facing |-> [dx |-> -1, dy |-> 0]],
            [position |-> [x |-> x, y |-> y + Scale], facing |-> [dx |-> 0, dy |-> 1]],
            [position |-> [x |-> x, y |-> y - Scale], facing |-> [dx |-> 0, dy |-> -1]]}
      ELSE {})

\* Lines 343-352: the candidate for a neighbour of `cur`.
candidate(cur, n, destination) ==
  LET segmentLength == distance(cur.position, n.position)
      length == cur.length + segmentLength
      remaining == manhattanDistance(n.position, destination)
  IN [position |-> n.position, facing |-> n.facing,
      t |-> cur.t + travelTime(segmentLength),
      length |-> length, cost |-> length + remaining, prev |-> {cur}]

\* Lines 353-356: the cell holds a candidate that costs no more.
dominated_Never(table, path) == FALSE
dominated(table, path) ==
  path.position \in DOMAIN table /\ table[path.position].cost <= path.cost

\* Lines 305-361: explore(current). The neighbours are at different positions,
\* so the order of the loop does not show in what it returns.
explore(cur, table, map, otherPositions, destination) ==
  LET next == {c \in {candidate(cur, n, destination) :
                        n \in {m \in neighbors(cur.position) :
                                 ~blocked(map, otherPositions, m.position)}} :
                 ~dominated(table, c)}
      at(pos) == CHOOSE c \in next : c.position = pos
      cells == {c.position : c \in next}
  IN [next |-> next,
      minDistances |-> [pos \in DOMAIN table \cup cells |->
                          IF pos \in cells THEN at(pos) ELSE table[pos]]]

\* Lines 228-247: MinDistancesPool.get sets the cells [y][x] with 0 <= x <
\* width and 0 <= y < height to null, and those only.
poolGet(table, width, height) ==
  LET cleared == {pos \in DOMAIN table :
                    /\ integral(pos.x) /\ integral(pos.y)
                    /\ pos.x >= 0 /\ pos.x < Tile(width)
                    /\ pos.y >= 0 /\ pos.y < Tile(height)}
  IN [pos \in DOMAIN table \ cleared |-> table[pos]]

leastCost_Any(heap) == heap
\* MinHeap.pop with the comparison of line 373: a candidate of least cost.
leastCost(heap) == {c \in heap : \A d \in heap : c.cost <= d.cost}

\* Lines 399-406: the dense path, from the start to `cur`; each point but the
\* last carries the facing of the step that leaves it.
RECURSIVE densePathTo(_, _)
densePathTo(cur, facing) ==
  IF cur.prev = Undefined
  THEN <<[position |-> cur.position, t |-> cur.t, facing |-> facing]>>
  ELSE densePathTo(Value(cur.prev), cur.facing)
         \o <<[position |-> cur.position, t |-> cur.t, facing |-> facing]>>

SelectIndices(n, Keep(_)) ==
  LET RECURSIVE pick(_)
      pick(i) == IF i > n THEN <<>>
                 ELSE (IF Keep(i) THEN <<i>> ELSE <<>>) \o pick(i + 1)
  IN pick(1)

\* compressPath: consecutive collinear segments are merged, so of the points
\* between the first and the last only the corners stay.
compressPath(densePath) ==
  LET n == Len(densePath)
      corner(i) == i = 1 \/ i = n \/ densePath[i].facing # densePath[i - 1].facing
      kept == SelectIndices(n, corner)
  IN IF n <= 2 THEN densePath
     ELSE [k \in 1..Len(kept) |-> densePath[kept[k]]]

\* Lines 177-180.
maxSize == 100
maxAge == 5000

\* Lines 290-297: the cache key; the start is rounded down to hundredths of
\* a tile.
round2(v) == (v * 100) \div Scale
worldStateHash(ps, convs, t) == <<Cardinality(DOMAIN ps), Cardinality(convs), t \div 1000>>
cacheKey(ps, convs, t, position, destination) ==
  [startX |-> round2(position.x), startY |-> round2(position.y),
   destX |-> destination.x, destY |-> destination.y,
   worldStateHash |-> worldStateHash(ps, convs, t)]

indexOf(cache, key) == {i \in DOMAIN cache : cache[i].key = key}
remove(cache, i) == [k \in 1..(Len(cache) - 1) |-> IF k < i THEN cache[k] ELSE cache[k + 1]]

cacheGet_Refresh(cache, key, clock) ==
  IF indexOf(cache, key) = {} THEN [found |-> Undefined, cache |-> cache]
  ELSE LET i == Value(indexOf(cache, key))
           entry == cache[i]
       IN IF clock - entry.timestamp > maxAge
          THEN [found |-> Undefined, cache |-> remove(cache, i)]
          ELSE [found |-> {entry},
                cache |-> Append(remove(cache, i),
                                 [entry EXCEPT !.hitCount = entry.hitCount + 1,
                                               !.timestamp = clock])]
cacheGet_InPlace(cache, key, clock) ==
  IF indexOf(cache, key) = {} THEN [found |-> Undefined, cache |-> cache]
  ELSE LET i == Value(indexOf(cache, key))
           entry == cache[i]
       IN IF clock - entry.timestamp > maxAge
          THEN [found |-> Undefined, cache |-> remove(cache, i)]
          ELSE [found |-> {entry},
                cache |-> [cache EXCEPT ![i].hitCount = entry.hitCount + 1]]
\* Lines 186-201: PathfindingCache.get: what it returns and the Map after it.
cacheGet(cache, key, clock) ==
  IF indexOf(cache, key) = {} THEN [found |-> Undefined, cache |-> cache]
  ELSE LET i == Value(indexOf(cache, key))
           entry == cache[i]
       IN IF clock - entry.timestamp > maxAge
          THEN [found |-> Undefined, cache |-> remove(cache, i)]
          ELSE [found |-> {entry},
                cache |-> Append(remove(cache, i),
                                 [entry EXCEPT !.hitCount = entry.hitCount + 1])]

cacheSet_NoEviction(cache, key, r, clock) ==
  Append(cache, [key |-> key, path |-> r.path, newDestination |-> r.newDestination,
                 timestamp |-> clock, hitCount |-> 0])
\* Lines 203-216: PathfindingCache.set.
cacheSet(cache, key, r, clock) ==
  LET room == IF Len(cache) >= maxSize THEN Tail(cache) ELSE cache
      entry == [key |-> key, path |-> r.path, newDestination |-> r.newDestination,
                timestamp |-> clock, hitCount |-> 0]
  IN IF indexOf(room, key) = {} THEN Append(room, entry)
     ELSE [room EXCEPT ![Value(indexOf(room, key))] = entry]

\* What findRoute returns of what the search computed.
Returned(r) == [kind |-> r.kind, path |-> r.path, newDestination |-> r.newDestination]

At(x, y) == [x |-> x, y |-> y]

\* Lines 289-305 and 363-372: the cache lookup and, on a miss, the start of
\* the search. On a hit the cached result is what the call returns; the
\* search is run all the same, into `fresh`, to have what it would have
\* computed.
FindRoute(playerId, destination, t) ==
  /\ routePc = "idle"
  /\ callsMade < MaxCalls
  /\ t >= call.now
  /\ LET player == players[playerId]
         key == cacheKey(players, conversations, t, player.position, destination)
         cached == cacheGet(pathfindingCache, key, dateNow)
         startingPosition == At(player.position.x, player.position.y)
         start == [position |-> startingPosition, facing |-> player.facing, t |-> t,
                   length |-> 0,
                   cost |-> manhattanDistance(startingPosition, destination),
                   prev |-> Undefined]
     IN /\ pathfindingCache' = cached.cache
        /\ call' = [now |-> t, playerId |-> playerId, position |-> {player.position},
                    destination |-> {destination}, key |-> {key},
                    hit |-> cached.found # Undefined,
                    others |-> otherPositionsOf(players, playerId), dateNow |-> dateNow,
                    age |-> {dateNow - pathfindingCache[i].timestamp :
                               i \in indexOf(pathfindingCache, key)}]
        /\ result' = IF cached.found # Undefined
                     THEN [kind |-> "route", path |-> Value(cached.found).path,
                           newDestination |-> Value(cached.found).newDestination]
                     ELSE NoResult
        /\ minDistances' = poolGet(pools, worldMap.width, worldMap.height)
        /\ current' = {start}
        /\ bestCandidate' = {start}
        /\ minheap' = {}
        /\ ties' = FALSE
        /\ fresh' = NoSearch
        /\ routePc' = "search"
        /\ previous' = IF callsMade = 0 THEN Undefined
                       ELSE {[key |-> Value(call.key), result |-> result]}
  /\ UNCHANGED <<worldMap, pools, dateNow, callsMade>>
  /\ UNCHANGED <<retryVars, doVars, rememberVars, adminVars, moveVars, convVars>>

closer_OrAsClose(cur, best, destination) ==
  manhattanDistance(cur.position, destination)
    <= manhattanDistance(best.position, destination)
\* Lines 378-381: `current` is nearer the destination than the best so far.
closer(cur, best, destination) ==
  manhattanDistance(cur.position, destination)
    < manhattanDistance(best.position, destination)

\* Lines 374-390: one turn of the while loop.
SearchStep ==
  /\ routePc = "search"
  /\ LET cur == Value(current)
         destination == Value(call.destination)
     IN IF pointsEqual(cur.position, destination)
        THEN /\ routePc' = "build"
             /\ UNCHANGED <<current, bestCandidate, minheap, minDistances, ties>>
        ELSE LET best == IF closer(cur, Value(bestCandidate), destination)
                         THEN cur ELSE Value(bestCandidate)
                 e == explore(cur, minDistances, worldMap, call.others, destination)
                 heap == minheap \cup e.next
             IN /\ bestCandidate' = {best}
                /\ minDistances' = e.minDistances
                /\ IF heap = {}
                   THEN /\ current' = Undefined
                        /\ minheap' = {}
                        /\ routePc' = "build"
                        /\ UNCHANGED ties
                   ELSE \E c \in leastCost(heap) :
                          /\ current' = {c}
                          /\ minheap' = heap \ {c}
                          /\ ties' = (ties \/ Cardinality(leastCost(heap)) > 1)
                          /\ UNCHANGED routePc
  /\ UNCHANGED <<worldMap, call, pools, pathfindingCache, dateNow, result, fresh, callsMade,
                 previous>>
  /\ UNCHANGED <<retryVars, doVars, rememberVars, adminVars, moveVars, convVars>>

found_NoRevised(cur, best) ==
  IF cur = Undefined
  THEN IF best.length = 0 THEN [NoSearch EXCEPT !.kind = "null"]
       ELSE [kind |-> "route",
             path |-> compressPath(densePathTo(best, best.facing)),
             newDestination |-> Undefined,
             densePath |-> densePathTo(best, best.facing)]
  ELSE [kind |-> "route",
        path |-> compressPath(densePathTo(Value(cur), Value(cur).facing)),
        newDestination |-> Undefined,
        densePath |-> densePathTo(Value(cur), Value(cur).facing)]
\* Lines 391-398: what the loop found.
found(cur, best) ==
  IF cur = Undefined
  THEN IF best.length = 0 THEN [NoSearch EXCEPT !.kind = "null"]
       ELSE [kind |-> "route",
             path |-> compressPath(densePathTo(best, best.facing)),
             newDestination |-> {best.position},
             densePath |-> densePathTo(best, best.facing)]
  ELSE [kind |-> "route",
        path |-> compressPath(densePathTo(Value(cur), Value(cur).facing)),
        newDestination |-> Undefined,
        densePath |-> densePathTo(Value(cur), Value(cur).facing)]

\* Lines 391-417: the result is built, stored in the cache and returned.
Return ==
  /\ routePc = "build"
  /\ LET r == found(current, Value(bestCandidate)) IN
     /\ fresh' = r
     /\ IF call.hit
        THEN UNCHANGED <<result, pathfindingCache, pools>>
        ELSE /\ result' = Returned(r)
             /\ pools' = minDistances
             /\ pathfindingCache' =
                  IF r.kind = "route"
                  THEN cacheSet(pathfindingCache, Value(call.key), r, dateNow)
                  ELSE pathfindingCache
  /\ routePc' = "idle"
  /\ callsMade' = callsMade + 1
  /\ current' = Undefined
  /\ bestCandidate' = Undefined
  /\ minheap' = {}
  /\ minDistances' = <<>>
  /\ UNCHANGED <<worldMap, call, dateNow, ties, previous>>
  /\ UNCHANGED <<retryVars, doVars, rememberVars, adminVars, moveVars, convVars>>

\* The maps: an empty 10x10 one; a 3x3 one whose tile (2,1) is walled in,
\* by obstacles of two layers; a 4x2 one that is a corridor from (0,0) to
\* (3,0) with the tile (3,1) beside its end.
OpenMap == [width |-> 10, height |-> 10, objectTiles |-> <<{}>>]
WalledMap == [width |-> 3, height |-> 3,
              objectTiles |-> <<{<<1, 1>>}, {<<2, 0>>, <<2, 2>>}>>]
CorridorMap == [width |-> 4, height |-> 2,
                objectTiles |-> <<{<<0, 1>>, <<1, 1>>, <<2, 1>>}>>]
RouteMaps == {OpenMap, WalledMap, CorridorMap}
\* A 4x2 map without obstacles, where two ways of different lengths lead
\* around a player; its starts, destinations and spots are the corridor's.
LoopMap == [width |-> 4, height |-> 2, objectTiles |-> <<{}>>]

\* Where the mover stands: on a tile, or between two tiles of a grid line.
RouteStarts(map) ==
  IF map = OpenMap THEN {At(Tile(2), Tile(2)), At(Tile(2) + 1, Tile(2))}
  ELSE IF map = WalledMap
  THEN {At(Tile(0), Tile(0)), At(Tile(0) + 1, Tile(0)), At(Tile(0), Tile(1))}
  ELSE {At(Tile(0), Tile(0))}
RouteDestinations(map) ==
  IF map = OpenMap THEN {At(Tile(5), Tile(2))}
  ELSE IF map = WalledMap THEN {At(Tile(2), Tile(1)), At(Tile(1), Tile(2))}
  ELSE {At(Tile(3), Tile(0))}
\* Arguments findRoute accepts that the engine's movers do not give it: a
\* start between tiles on both axes, a destination between tiles.
RouteStartsAny(map) ==
  IF map = WalledMap THEN {At(Tile(0) + 1, Tile(0) + 1)}
  ELSE RouteStarts(map) \cup {At(Tile(0) + 1, Tile(0))}
RouteDestinationsAny(map) ==
  IF map = CorridorMap THEN {At(Tile(2) + 1, Tile(0))}
  ELSE RouteDestinations(map)
\* Where another player may stand.
OtherSpots(map) ==
  IF map = OpenMap THEN {At(Tile(8), Tile(8)), At(Tile(8), Tile(7))}
  ELSE IF map = WalledMap THEN {At(Tile(0), Tile(2)), At(Tile(1), Tile(0))}
  ELSE {At(Tile(1), Tile(0)), At(Tile(2), Tile(0)), At(Tile(3), Tile(0)), At(Tile(3), Tile(1))}
\* Who is in the world: the mover alone, or every player.
Populations(map) == IF map = OpenMap THEN {{Mover}, PlayerIds} ELSE {PlayerIds}
\* The game times findRoute is called with, and the readings of Date.now().
RouteTimes == {1000, 1400, 2000}
WallClock == {0, 5000, 5001}

\* Another player has moved (the population is what it was).
MoveOther(id, pos) ==
  /\ routePc = "idle"
  /\ id \in DOMAIN players \ {Mover}
  /\ players[id].position # pos
  /\ players' = [players EXCEPT ![id].position = pos]
  /\ UNCHANGED <<conversations, lastCall>>
  /\ UNCHANGED <<retryVars, doVars, rememberVars, adminVars, convVars, routeVars>>

\* Time passes.
Tick(clock) ==
  /\ routePc = "idle"
  /\ clock > dateNow
  /\ dateNow' = clock
  /\ UNCHANGED <<worldMap, routePc, call, current, bestCandidate, minheap, minDistances,
                 pools, pathfindingCache, result, fresh, ties, callsMade, previous>>
  /\ UNCHANGED <<retryVars, doVars, rememberVars, adminVars, moveVars, convVars>>

InitRouteIn(worldMaps, any) ==
  /\ RetryStart
  /\ DoIdle
  /\ RememberIdle
  /\ ConvIdle
  /\ AdminIdle
  /\ pc = [w \in Workers |-> "idle"]
  /\ params = [w \in Workers |-> NoParams]
  /\ submits = [w \in Workers |-> 0]
  /\ worldMap \in worldMaps
  /\ \E start \in (IF any THEN RouteStartsAny(worldMap) ELSE RouteStarts(worldMap)),
        population \in Populations(worldMap),
        spots \in [PlayerIds \ {Mover} -> OtherSpots(worldMap)] :
       players = [id \in population |->
                    [Bystander(id) EXCEPT !.position = IF id = Mover THEN start ELSE spots[id]]]
  /\ conversations = {}
  /\ lastCall = NoCall
  /\ routePc = "idle"
  /\ call = NoRouteCall
  /\ current = Undefined
  /\ bestCandidate = Undefined
  /\ minheap = {}
  /\ minDistances = <<>>
  /\ pools = <<>>
  /\ pathfindingCache = <<>>
  /\ dateNow = 0
  /\ result = NoResult
  /\ fresh = NoSearch
  /\ ties = FALSE
  /\ callsMade = 0
  /\ previous = Undefined

InitRoute == InitRouteIn(RouteMaps, FALSE)
InitRouteAny == InitRouteIn({WalledMap, CorridorMap}, TRUE)

NextRoute ==
  \/ \E destination \in RouteDestinations(worldMap), t \in RouteTimes :
       FindRoute(Mover, destination, t)
  \/ SearchStep
  \/ Return
  \/ \E id \in PlayerIds, pos \in OtherSpots(worldMap) : MoveOther(id, pos)
  \/ \E clock \in WallClock : Tick(clock)

NextRouteAny ==
  \/ \E destination \in RouteDestinationsAny(worldMap), t \in RouteTimes :
       FindRoute(Mover, destination, t)
  \/ SearchStep
  \/ Return
  \/ \E id \in PlayerIds, pos \in OtherSpots(worldMap) : MoveOther(id, pos)
  \/ \E clock \in WallClock : Tick(clock)

SpecRoute == InitRoute /\ [][NextRoute]_vars
\* findRoute on the maps with a wall or a player to walk around.
InitRouteAround == InitRouteIn({WalledMap, CorridorMap, LoopMap}, FALSE)
NextRouteAround ==
  \/ \E destination \in RouteDestinations(worldMap), t \in RouteTimes :
       FindRoute(Mover, destination, t)
  \/ SearchStep
  \/ Return
SpecRouteAround == InitRouteAround /\ [][NextRouteAround]_vars
\* findRoute on any arguments it accepts.
SpecRouteAny == InitRouteAny /\ [][NextRouteAny]_vars
\* findRoute is synchronous: once called, each turn of its loop and its
\* return run without waiting on anything.
InitRouteLive ==
  InitRouteIn({WalledMap, CorridorMap}, TRUE) \/ InitRouteIn({WalledMap, CorridorMap}, FALSE)
NextRouteLive ==
  \/ \E destination \in RouteDestinations(worldMap) \cup RouteDestinationsAny(worldMap),
        t \in RouteTimes :
       FindRoute(Mover, destination, t)
  \/ SearchStep
  \/ Return
SpecRouteLive ==
  InitRouteLive /\ [][NextRouteLive]_vars /\ WF_vars(SearchStep) /\ WF_vars(Return)

\* ------------------------------------------------------------ C15 - C18

\* A findRoute call has returned.
RouteReturned == routePc = "idle" /\ callsMade > 0

\* The positions the mover can get to by moves findRoute does not find
\* blocked, in the world the call saw.
RECURSIVE reachFrom(_, _, _)
reachFrom(map, otherPositions, seen) ==
  LET more == {n.position : n \in UNION {neighbors(pos) : pos \in seen}}
      free == {pos \in more : ~blocked(map, otherPositions, pos)} \ seen
  IN IF free = {} THEN seen ELSE reachFrom(map, otherPositions, seen \cup free)
reachable == reachFrom(worldMap, call.others, call.position)

DestinationReachable == Value(call.destination) \in reachable

\* To some position the mover can get to it is less far from the
\* destination than from where the mover stands.
ProgressPossible ==
  \E pos \in reachable :
    manhattanDistance(pos, Value(call.destination))
      < manhattanDistance(Value(call.position), Value(call.destination))

\* A route all the way: its times never decrease, it ends on the
\* destination, and no other destination is given.
Complete(r) ==
  /\ r.kind = "route"
  /\ Len(r.path) >= 1
  /\ \A i \in 1..(Len(r.path) - 1) : r.path[i].t <= r.path[i + 1].t
  /\ r.path[Len(r.path)].position = Value(call.destination)
  /\ r.newDestination = Undefined

\* C15, as stated: whenever the destination can be reached from the mover's
\* position by unblocked moves, what findRoute returns is a route all the
\* way to it, with non-decreasing times and no revised destination.
C15_ReachableRouted ==
  (RouteReturned /\ DestinationReachable) => Complete(result)

\* C15 for the search: whenever the destination can be reached, what the
\* search computes (what a call that misses the cache returns) is a route
\* all the way.
C15_SearchRoutes ==
  (RouteReturned /\ DestinationReachable) => Complete(Returned(fresh))

\* A mover between two tiles of the walled map got a route with a corner to
\* (1,2) from the search.
C15_Witness ==
  /\ RouteReturned
  /\ ~call.hit
  /\ worldMap = WalledMap
  /\ ~integral(Value(call.position).x)
  /\ DestinationReachable
  /\ Complete(result)
  /\ Len(result.path) >= 3

\* The places of a dense path after its start.
Steps(densePath) == [i \in 1..(Len(densePath) - 1) |-> densePath[i + 1].position]
Increasing(path) == \A i \in 1..(Len(path) - 1) : path[i].t < path[i + 1].t

ScenarioB ==
  /\ RouteReturned
  /\ worldMap = OpenMap
  /\ call.position = {At(Tile(2), Tile(2))}
  /\ call.destination = {At(Tile(5), Tile(2))}
  /\ call.others = {}

\* C16, as stated: for a mover at (2,2) with destination (5,2) on the empty
\* 10x10 map with no other player, the path returned has exactly three
\* waypoints, at (3,2), (4,2) and (5,2), with strictly increasing times.
C16_ThreeWaypoints ==
  ScenarioB =>
    /\ Len(result.path) = 3
    /\ [i \in 1..3 |-> result.path[i].position]
         = <<At(Tile(3), Tile(2)), At(Tile(4), Tile(2)), At(Tile(5), Tile(2))>>
    /\ Increasing(result.path)

\* C16, amended: in that scenario the search goes through (3,2), (4,2) and
\* (5,2) with strictly increasing times after the start, and the path
\* returned is its compression: two waypoints, the start (2,2) and the
\* destination (5,2), the second one later than the first.
C16_StraightLine ==
  ScenarioB =>
    /\ Steps(fresh.densePath)
         = <<At(Tile(3), Tile(2)), At(Tile(4), Tile(2)), At(Tile(5), Tile(2))>>
    /\ Increasing(fresh.densePath)
    /\ fresh.densePath[1].position = At(Tile(2), Tile(2))
    /\ fresh.densePath[1].t = call.now
    /\ Len(result.path) = 2
    /\ [i \in 1..2 |-> result.path[i].position] = <<At(Tile(2), Tile(2)), At(Tile(5), Tile(2))>>
    /\ Increasing(result.path)
    /\ result.newDestination = Undefined

C16_Witness ==
  /\ ScenarioB
  /\ ~call.hit
  /\ call.now = 1400
  /\ Len(result.path) = 2
  /\ result.path[1].t = 1400

\* Every tile next to the destination is an obstacle or outside the map.
Enclosed(map, destination) ==
  \A n \in neighbors(destination) :
    blockedWithPositions(n.position, {}, map) \in {"out of bounds", "world blocked"}

\* C17: when the destination is enclosed by obstacles, findRoute returns
\* either a route with a revised destination that is strictly nearer the
\* destination (Manhattan distance) than the mover's position, or null, and
\* null only if the mover cannot get to any position nearer the destination.
C17_EnclosedDestination ==
  (RouteReturned /\ Enclosed(worldMap, Value(call.destination))) =>
    \/ /\ result.kind = "route"
       /\ result.newDestination # Undefined
       /\ manhattanDistance(Value(result.newDestination), Value(call.destination))
            < manhattanDistance(Value(call.position), Value(call.destination))
    \/ /\ result.kind = "null"
       /\ ~ProgressPossible

\* For the walled-in tile (2,1), a mover at (0,0), three tiles from it, got
\* a route that ends two tiles from it.
C17_Witness ==
  /\ RouteReturned
  /\ worldMap = WalledMap
  /\ Enclosed(worldMap, Value(call.destination))
  /\ call.position = {At(Tile(0), Tile(0))}
  /\ result.kind = "route"
  /\ manhattanDistance(Value(call.position), Value(call.destination)) = Tile(3)
  /\ manhattanDistance(Value(result.newDestination), Value(call.destination)) = Tile(2)

\* For the same tile, a mover at (0,1), two tiles from it and with no way
\* nearer, got null.
C17_NullReached ==
  /\ RouteReturned
  /\ worldMap = WalledMap
  /\ Enclosed(worldMap, Value(call.destination))
  /\ call.position = {At(Tile(0), Tile(1))}
  /\ result.kind = "null"

\* The revised destination is a position the mover can get to, and it can
\* get to none nearer the destination.
BestReachable(r) ==
  /\ r.kind = "route"
  /\ r.newDestination # Undefined
  /\ Value(r.newDestination) \in reachable
  /\ \A pos \in reachable :
       manhattanDistance(pos, Value(call.destination))
         >= manhattanDistance(Value(r.newDestination), Value(call.destination))

\* C18, as stated: when the destination cannot be reached and the mover can
\* make progress, findRoute returns a revised destination that is the best
\* reachable position.
C18_BestReachable ==
  (RouteReturned /\ ~DestinationReachable /\ ProgressPossible) => BestReachable(result)

\* C18 for the search: what the search computes (what a call that misses
\* the cache returns) then has the best reachable position as its revised
\* destination.
C18_SearchBest ==
  (RouteReturned /\ ~DestinationReachable /\ ProgressPossible)
    => BestReachable(Returned(fresh))

\* In the corridor, with another player on (2,0), the search stopped the
\* mover at (1,0).
C18_Witness ==
  /\ RouteReturned
  /\ ~call.hit
  /\ worldMap = CorridorMap
  /\ At(Tile(2), Tile(0)) \in call.others
  /\ result.newDestination = {At(Tile(1), Tile(0))}

\* ------------------------------------------------------------ C19, C20

\* The last two calls had the same cache key: the same start (to two
\* decimals), destination, player count, conversation count and second.
SameKeyTwice == RouteReturned /\ previous # Undefined /\ Value(previous).key = Value(call.key)

\* C19, as stated: two consecutive findRoute calls with the same start,
\* destination and fingerprint return the same path and revised destination.
C19_SameKeySameResult ==
  SameKeyTwice => result = Value(previous).result

\* C19, amended: they do when the first call returned a route and the entry
\* stored for it is no older than maxAge at the second call; the second
\* call is then a cache hit.
C19_CachedIdempotent ==
  (/\ SameKeyTwice
   /\ Value(previous).result.kind = "route"
   /\ call.age # Undefined
   /\ Value(call.age) <= maxAge)
  => /\ call.hit
     /\ result = Value(previous).result

\* The second call came 400 ms of game time and 5000 ms of Date.now() after
\* the first and got the first call's route, times included.
C19_Witness ==
  /\ SameKeyTwice
  /\ call.now = 1400
  /\ call.age = {5000}
  /\ call.hit
  /\ result.kind = "route"
  /\ result.path[1].t = 1000
  /\ result = Value(previous).result

\* C20, as stated: what a cache hit returns is what the search computes for
\* the call that hit, from its now, its mover and the other players'
\* positions. (Calls in which the heap held two candidates of least cost
\* are left out: for them the search's result depends on the heap's order.)
C20_HitIsFresh ==
  (RouteReturned /\ call.hit /\ ~ties) => result = Returned(fresh)


\* ------------------------------------------------------------------ C24

\* The position is inside the map, on no obstacle tile of any layer, and at
\* least the collision threshold from every one of the other positions.
Unblocked(pos, otherPositions, map) ==
  /\ pos.x >= 0 /\ pos.x < Tile(map.width)
  /\ pos.y >= 0 /\ pos.y < Tile(map.height)
  /\ \A i \in DOMAIN map.objectTiles :
       <<floor(pos.x) \div Scale, floor(pos.y) \div Scale>> \notin map.objectTiles[i]
  /\ \A other \in otherPositions : ~tooClose(other, pos)

\* C24: every waypoint after the start of the path the search computed,
\* dense or compressed, is unblocked in the world the call saw, where the
\* other positions are those of the players other than the mover.
C24_WaypointsUnblocked ==
  (RouteReturned /\ fresh.kind = "route") =>
    /\ \A i \in 2..Len(fresh.densePath) :
         Unblocked(fresh.densePath[i].position, call.others, worldMap)
    /\ \A i \in 2..Len(fresh.path) :
         Unblocked(fresh.path[i].position, call.others, worldMap)
    /\ ~call.hit => result.path = fresh.path

\* A mover between two tiles got a path whose second waypoint is nearer its
\* own position than the collision threshold, past another player's tile
\* column.
C24_Witness ==
  /\ RouteReturned
  /\ ~call.hit
  /\ result.kind = "route"
  /\ call.others # {}
  /\ Len(result.path) >= 3
  /\ tooClose(Value(call.position), result.path[2].position)

\* ------------------------------------------------------------------ C25

\* A search that missed the cache is about to explore its first candidate.
SearchStarting ==
  /\ routePc = "search"
  /\ ~call.hit
  /\ current = bestCandidate
  /\ current # Undefined
  /\ Value(current).prev = Undefined
  /\ minheap = {}

OutOfBounds(pos, map) ==
  pos.x < 0 \/ pos.y < 0 \/ pos.x >= Tile(map.width) \/ pos.y >= Tile(map.height)

\* The positions explore() asks blocked() about for the current candidate.
Asked ==
  IF routePc = "search" /\ current # Undefined
  THEN {n.position : n \in neighbors(Value(current).position)}
  ELSE {}

\* C26: for every position the search asks about, outside the map means
\* 'out of bounds' with no tile read; every tile read is a tile of the map;
\* and no waypoint of a returned path is outside the map.
C26_OutOfBoundsBlocked ==
  /\ \A pos \in Asked :
       /\ OutOfBounds(pos, worldMap)
            => /\ blockedWithPositions(pos, call.others, worldMap) = "out of bounds"
               /\ tileLookups(pos, worldMap) = {}
       /\ tileLookups(pos, worldMap) \subseteq
            (0..(worldMap.width - 1)) \X (0..(worldMap.height - 1))
  /\ (RouteReturned /\ result.kind = "route") =>
       \A i \in 1..Len(result.path) : ~OutOfBounds(result.path[i].position, worldMap)

\* The search asked about a position left of the map and one on it.
C26_Witness ==
  /\ \E pos \in Asked : pos.x < 0
  /\ \E pos \in Asked : ~OutOfBounds(pos, worldMap) /\ tileLookups(pos, worldMap) # {}

\* ------------------------------------------------------------------ C27

NonIntegralDestinationCall ==
  /\ RouteReturned
  /\ \/ ~integral(Value(call.destination).x)
     \/ ~integral(Value(call.destination).y)

KeyTo(n) == [startX |-> 0, startY |-> 0, destX |-> n, destY |-> 0,
             worldStateHash |-> <<2, 0, 1>>]
StoredRoute(n) ==
  [path |-> <<[position |-> [x |-> n, y |-> 0], t |-> 1000, facing |-> [dx |-> 1, dy |-> 0]]>>,
   newDestination |-> Undefined]
KeyNumbers == 1..(maxSize + 2)
\* The keys looked up: the two oldest, the newest, two new ones.
ProbeKeys == {1, 2, maxSize, maxSize + 1, maxSize + 2}
KeysIn(cache) == {n \in KeyNumbers : indexOf(cache, KeyTo(n)) # {}}

\* Lines 186-201: findRoute's lookup (lines 298-299) on the cache alone.
CacheGet(n) ==
  /\ opsMade < MaxOps
  /\ LET r == cacheGet(pathfindingCache, KeyTo(n), dateNow)
     IN /\ pathfindingCache' = r.cache
        /\ lookup' = [op |-> "get", key |-> n, found |-> r.found, before |-> pathfindingCache,
                     clock |-> dateNow]
        /\ usage' = IF r.found = Undefined THEN usage
                    ELSE [usage EXCEPT ![n].used = maxSize + opsMade + 1]
        /\ lastHit' = IF r.found = Undefined THEN lastHit ELSE {n}
  /\ opsMade' = opsMade + 1
  /\ UNCHANGED <<worldMap, routePc, call, current, bestCandidate, minheap, minDistances,
                 pools, dateNow, result, fresh, ties, callsMade, previous>>
  /\ UNCHANGED <<retryVars, doVars, rememberVars, moveVars, convVars, worldVars, dataVars>>

\* Lines 203-216: findRoute stores the route it searched after its lookup
\* of the same key missed (line 409).
CacheSet(n) ==
  /\ opsMade < MaxOps
  /\ lookup.op = "get" /\ lookup.key = n /\ lookup.found = Undefined
  /\ pathfindingCache' = cacheSet(pathfindingCache, KeyTo(n), StoredRoute(n), dateNow)
  /\ lookup' = [op |-> "set", key |-> n, found |-> Undefined, before |-> pathfindingCache,
                clock |-> dateNow]
  /\ usage' = [usage EXCEPT ![n] = [storedAt |-> dateNow,
                                    inserted |-> maxSize + opsMade + 1,
                                    used |-> maxSize + opsMade + 1]]
  /\ opsMade' = opsMade + 1
  /\ UNCHANGED lastHit
  /\ UNCHANGED <<worldMap, routePc, call, current, bestCandidate, minheap, minDistances,
                 pools, dateNow, result, fresh, ties, callsMade, previous>>
  /\ UNCHANGED <<retryVars, doVars, rememberVars, moveVars, convVars, worldVars, dataVars>>

\* Date.now() advances between two operations.
CacheTick(clock) ==
  /\ clock > dateNow
  /\ dateNow' = clock
  /\ UNCHANGED <<worldMap, routePc, call, current, bestCandidate, minheap, minDistances,
                 pools, pathfindingCache, result, fresh, ties, callsMade, previous>>
  /\ UNCHANGED <<retryVars, doVars, rememberVars, moveVars, convVars, adminVars>>

\* The cache after `size` routes were stored at Date.now() = 0, one per key,
\* in the order of their numbers.
FilledCache(size) ==
  [n \in 1..size |-> [key |-> KeyTo(n), path |-> StoredRoute(n).path,
                      newDestination |-> StoredRoute(n).newDestination,
                      timestamp |-> 0, hitCount |-> 0]]

InitCache ==
  /\ RetryStart
  /\ DoIdle
  /\ RememberIdle
  /\ MoveIdle
  /\ ConvIdle
  /\ pc = [w \in Workers |-> "idle"]
  /\ params = [w \in Workers |-> NoParams]
  /\ submits = [w \in Workers |-> 0]
  /\ worldMap = [width |-> 0, height |-> 0, objectTiles |-> <<>>]
  /\ routePc = "idle"
  /\ call = NoRouteCall
  /\ current = Undefined
  /\ bestCandidate = Undefined
  /\ minheap = {}
  /\ minDistances = <<>>
  /\ pools = <<>>
  /\ \E size \in {maxSize - 1, maxSize} : pathfindingCache = FilledCache(size)
  /\ dateNow = 0
  /\ result = NoResult
  /\ fresh = NoSearch
  /\ ties = FALSE
  /\ callsMade = 0
  /\ previous = Undefined
  /\ lookup = NoLookup
  /\ usage = [n \in KeyNumbers |-> [storedAt |-> 0, inserted |-> n, used |-> n]]
  /\ lastHit = Undefined
  /\ opsMade = 0
  /\ WorldIdle
  /\ DataIdle

NextCache ==
  \/ \E n \in ProbeKeys : CacheGet(n)
  \/ \E n \in ProbeKeys : CacheSet(n)
  \/ \E clock \in WallClock : CacheTick(clock)

SpecCache == InitCache /\ [][NextCache]_vars

\* ------------------------------------------------------------------ C21

\* C21: a lookup returns an entry only if it was stored at most maxAge ago,
\* however often it was hit since; a lookup that finds an older entry
\* reports a miss and leaves the Map without it.
C21_NeverReturnedStale ==
  lookup.op = "get" =>
    /\ lookup.found # Undefined => lookup.clock - usage[lookup.key].storedAt <= maxAge
    /\ (/\ lookup.key \in KeysIn(lookup.before)
        /\ lookup.clock - usage[lookup.key].storedAt > maxAge)
       => /\ lookup.found = Undefined
          /\ lookup.key \notin KeysIn(pathfindingCache)

\* An entry stored at 0 and hit at 5000 was looked up again at 5001: a miss,
\* and the entry is gone.
C21_Witness ==
  /\ lookup.op = "get"
  /\ lookup.key \in KeysIn(lookup.before)
  /\ lookup.before[Value(indexOf(lookup.before, KeyTo(lookup.key)))].hitCount >= 1
  /\ usage[lookup.key].storedAt = 0
  /\ lookup.clock = 5001
  /\ lookup.found = Undefined
  /\ lookup.key \notin KeysIn(pathfindingCache)

\* ------------------------------------------------------------- C22, C23

\* A set found the Map at its cap.
SetWhenFull == lookup.op = "set" /\ Len(lookup.before) >= maxSize
\* The keys a set when full removed.
Evicted == KeysIn(lookup.before) \ KeysIn(pathfindingCache)

\* C22, as stated: a set at the cap evicts the entry inserted earliest,
\* whatever was hit, and the cache never holds more than maxSize entries.
C22_EvictsEarliestInserted ==
  /\ Len(pathfindingCache) <= maxSize
  /\ SetWhenFull =>
       \E n \in KeysIn(lookup.before) :
         /\ Evicted = {n}
         /\ \A m \in KeysIn(lookup.before) : usage[n].inserted <= usage[m].inserted

\* C22, amended: a set at the cap evicts the first entry of the Map's order,
\* in which a hit entry is moved to the end, and the cache never holds more
\* than maxSize entries.
C22_EvictsFirstOfMap ==
  /\ Len(pathfindingCache) <= maxSize
  /\ SetWhenFull =>
       /\ Evicted = {lookup.before[1].key.destX}
       /\ Len(pathfindingCache) = maxSize
       /\ pathfindingCache[maxSize].key = KeyTo(lookup.key)

\* The oldest entry was hit, and the set of a new key at the cap evicted the
\* second oldest.
C22_Witness ==
  /\ SetWhenFull
  /\ lastHit = {1}
  /\ 1 \in KeysIn(pathfindingCache)
  /\ Evicted = {2}

\* C23: a set at the cap evicts the entry least recently stored or hit, and
\* never the entry of the latest hit.
C23_EvictsLeastRecentlyUsed ==
  SetWhenFull =>
    \E n \in KeysIn(lookup.before) :
      /\ Evicted = {n}
      /\ \A m \in KeysIn(lookup.before) : usage[n].used <= usage[m].used
      /\ lastHit # {n}

\* The two oldest entries were hit, the second oldest later, and the set of
\* a new key at the cap evicted the third.
C23_Witness ==
  /\ SetWhenFull
  /\ lastHit = {2}
  /\ usage[1].used > maxSize
  /\ usage[1].used < usage[2].used
  /\ Evicted = {3}

\* ------------------------------------------------------------------ C30

\* Worker w's handler has submitted a wander destination.
Wandered(w) ==
  /\ params[w].name = "finishDoSomething"
  /\ params[w].destination # Undefined

ENGINE_ACTION_DURATION == 30000
IDLE_WORLD_TIMEOUT == 300000
WORLD_HEARTBEAT_INTERVAL == 60000

WorldIds == 1..NumWorlds
\* An id heartbeatWorld can be given that has no worldStatus row.
UnknownWorld == NumWorlds + 1

\* Date.now() when the tables were set up.
Epoch == 1000000
\* The readings of Date.now() the mutations see: on and past the engine
\* timeout, and past the idle timeout, counted from Epoch.
WorldClocks ==
  {Epoch + 2 * ENGINE_ACTION_DURATION,
   Epoch + 2 * ENGINE_ACTION_DURATION + 1,
   Epoch + IDLE_WORLD_TIMEOUT + 1}

WorldStatuses == {"running", "inactive", "stoppedByDeveloper"}

\* A world at set-up: its row and its engine row, if there is one.
WorldSetups ==
  {[row |-> [status |-> st, lastViewed |-> {Epoch}],
    engine |-> {[currentTime |-> {Epoch}]}] : st \in WorldStatuses}
  \cup {[row |-> [status |-> "running", lastViewed |-> {Epoch}], engine |-> e] :
          e \in {Undefined, {[currentTime |-> Undefined]}}}
  \cup {[row |-> [status |-> "running", lastViewed |-> Undefined],
          engine |-> {[currentTime |-> {Epoch}]}]}

\* The status column of the worldStatus table.
statusOf(table) == [w \in WorldIds |-> table[w].status]

\* Line 42: the heartbeat refreshes lastViewed when it is unset or older than
\* half the heartbeat interval.
lastViewedDue(worldRow, clock) ==
  \/ worldRow.lastViewed = Undefined
  \/ Value(worldRow.lastViewed) = 0
  \/ Value(worldRow.lastViewed) < clock - WORLD_HEARTBEAT_INTERVAL \div 2

\* Line 44: Math.max(worldStatus.lastViewed ?? now, now).
refreshed(worldRow, clock) ==
  IF worldRow.lastViewed = Undefined \/ Value(worldRow.lastViewed) < clock
  THEN clock ELSE Value(worldRow.lastViewed)

restartable_Always(state) == TRUE
restartable_AnyStopped(state) == state # "running"
\* Line 52: the heartbeat restarts a world whose status is 'inactive'.
restartable(state) == state = "inactive"

\* startEngine or stopEngine (convex/aiTown/main.ts) is called for the
\* worlds ws.
called(history, ws, name) ==
  [w \in DOMAIN history |-> IF w \in ws THEN name ELSE history[w]]

\* Lines 26-57.
HeartbeatWorld(worldId, clock) ==
  /\ clock >= worldCall.now
  /\ IF worldId \notin WorldIds
     THEN \* lines 35-37: no row, the mutation throws
          /\ worldCall' = [NoWorldCall EXCEPT !.op = "heartbeatWorld", !.worldId = worldId,
                             !.now = clock, !.outcome = "error",
                             !.before = statusOf(worldStatus),
                             !.callsBefore = engineCalls]
          /\ UNCHANGED worldStatus
     ELSE LET row == worldStatus[worldId]
              viewed == IF lastViewedDue(row, clock)
                        THEN [row EXCEPT !.lastViewed = {refreshed(row, clock)}]
                        ELSE row
              restart == restartable(row.status)
          IN /\ worldStatus' = [worldStatus EXCEPT ![worldId] =
                                  IF restart THEN [viewed EXCEPT !.status = "running"]
                                  ELSE viewed]
             /\ worldCall' = [NoWorldCall EXCEPT !.op = "heartbeatWorld",
                                !.worldId = worldId, !.now = clock,
                                !.before = statusOf(worldStatus),
                             !.callsBefore = engineCalls,
                                !.started = IF restart THEN {worldId} ELSE {}]
  /\ engineCalls' = called(engineCalls, worldCall'.started, "startEngine")
  /\ UNCHANGED engines
  /\ UNCHANGED <<retryVars, doVars, rememberVars, moveVars, convVars, routeVars, cacheVars,
                 dataVars>>

\* Line 65: the rows stopInactiveWorlds passes over.
viewedOrStopped(worldRow, cutoff) ==
  \/ (worldRow.lastViewed # Undefined /\ cutoff < Value(worldRow.lastViewed))
  \/ worldRow.status # "running"

\* Lines 60-73.
StopInactiveWorlds(clock) ==
  /\ clock >= worldCall.now
  /\ LET cutoff == clock - IDLE_WORLD_TIMEOUT
         idle == {w \in WorldIds : ~viewedOrStopped(worldStatus[w], cutoff)}
     IN /\ worldStatus' = [w \in WorldIds |->
                             IF w \in idle THEN [worldStatus[w] EXCEPT !.status = "inactive"]
                             ELSE worldStatus[w]]
        /\ worldCall' = [NoWorldCall EXCEPT !.op = "stopInactiveWorlds", !.now = clock,
                           !.before = statusOf(worldStatus),
                             !.callsBefore = engineCalls,
                           !.stopped = idle]
  /\ engineCalls' = called(engineCalls, worldCall'.stopped, "stopEngine")
  /\ UNCHANGED engines
  /\ UNCHANGED <<retryVars, doVars, rememberVars, moveVars, convVars, routeVars, cacheVars,
                 dataVars>>

\* Line 80.
engineTimeout(clock) == clock - ENGINE_ACTION_DURATION * 2

dead_OrEqual(engine, timeout) ==
  /\ engine.currentTime # Undefined
  /\ Value(engine.currentTime) # 0
  /\ Value(engine.currentTime) <= timeout

\* Line 90: engine.currentTime && engine.currentTime < engineTimeout.
dead(engine, timeout) ==
  /\ engine.currentTime # Undefined
  /\ Value(engine.currentTime) # 0
  /\ Value(engine.currentTime) < timeout

\* Lines 75-96. The mutation is one transaction: when the loop throws at a
\* running world whose engine row is missing (lines 87-89), the kicks made
\* for the worlds before it are rolled back with it.
RestartDeadWorlds(clock) ==
  /\ clock >= worldCall.now
  /\ LET running == {w \in WorldIds : worldStatus[w].status = "running"}
         missing == {w \in running : engines[w] = Undefined}
     IN worldCall' =
          IF missing # {}
          THEN [NoWorldCall EXCEPT !.op = "restartDeadWorlds", !.now = clock,
                  !.outcome = "error",
                  !.before = statusOf(worldStatus),
                             !.callsBefore = engineCalls]
          ELSE [NoWorldCall EXCEPT !.op = "restartDeadWorlds", !.now = clock,
                  !.before = statusOf(worldStatus),
                             !.callsBefore = engineCalls,
                  !.kicked = {w \in running :
                                dead(Value(engines[w]), engineTimeout(clock))}]
  /\ UNCHANGED <<worldStatus, engines, engineCalls>>
  /\ UNCHANGED <<retryVars, doVars, rememberVars, moveVars, convVars, routeVars, cacheVars,
                 dataVars>>

\* The engine of a running world completes a step and records its time; the
\* step runs at the latest reading of Date.now().
EngineStep(w) ==
  /\ worldStatus[w].status = "running"
  /\ engines[w] # Undefined
  /\ engines' = [engines EXCEPT ![w] = {[currentTime |-> {worldCall.now}]}]
  /\ worldCall' = [NoWorldCall EXCEPT !.op = "engineStep", !.now = worldCall.now,
                     !.before = statusOf(worldStatus),
                             !.callsBefore = engineCalls]
  /\ UNCHANGED <<worldStatus, engineCalls>>
  /\ UNCHANGED <<retryVars, doVars, rememberVars, moveVars, convVars, routeVars, cacheVars,
                 dataVars>>

\* The rows and engines the mutations can find: a world in any status seen
\* at set-up with an engine that stepped then, and a running world never
\* seen, or with an engine that never stepped, or with its engine row missing.
\* The engine of a running world was started last, that of an inactive world
\* or of one stopped by the developer was stopped last.
InitWorld ==
  /\ RetryStart
  /\ DoIdle
  /\ RememberIdle
  /\ MoveIdle
  /\ ConvIdle
  /\ RouteIdle
  /\ CacheIdle
  /\ DataIdle
  /\ pc = [w \in Workers |-> "idle"]
  /\ params = [w \in Workers |-> NoParams]
  /\ submits = [w \in Workers |-> 0]
  /\ \E setup \in [WorldIds -> WorldSetups] :
       /\ worldStatus = [w \in WorldIds |-> setup[w].row]
       /\ engines = [w \in WorldIds |-> setup[w].engine]
  /\ engineCalls = [w \in WorldIds |-> IF worldStatus[w].status = "running"
                                         THEN "startEngine" ELSE "stopEngine"]
  /\ worldCall = [NoWorldCall EXCEPT !.now = Epoch, !.before = statusOf(worldStatus),
                                     !.callsBefore = engineCalls]

NextWorld ==
  \/ \E worldId \in WorldIds \cup {UnknownWorld}, clock \in WorldClocks :
       HeartbeatWorld(worldId, clock)
  \/ \E clock \in WorldClocks : StopInactiveWorlds(clock)
  \/ \E clock \in WorldClocks : RestartDeadWorlds(clock)
  \/ \E w \in WorldIds : EngineStep(w)

SpecWorld == InitWorld /\ [][NextWorld]_vars

\* ------------------------------------------------------------------ C28

\* The running worlds whose engine's last recorded step is older than twice
\* the engine action duration at the last reading of Date.now().
Stalled ==
  {w \in WorldIds :
     /\ worldCall.before[w] = "running"
     /\ engines[w] # Undefined
     /\ Value(engines[w]).currentTime # Undefined
     /\ Value(Value(engines[w]).currentTime)
          < worldCall.now - 2 * ENGINE_ACTION_DURATION}

\* A running world has no engine row.
MissingEngine ==
  \E w \in WorldIds : /\ worldCall.before[w] = "running"
                      /\ engines[w] = Undefined

Touched == worldCall.started \cup worldCall.stopped \cup worldCall.kicked

\* C29: no heartbeatWorld, stopInactiveWorlds or restartDeadWorlds call
\* changes the status of a world stopped by the developer or starts, stops or
\* kicks its engine, and heartbeatWorld on an inactive world sets it to
\* running and starts its engine.
C29_StoppedLeftAlone ==
  /\ \A w \in WorldIds :
       worldCall.before[w] = "stoppedByDeveloper" =>
         /\ worldStatus[w].status = "stoppedByDeveloper"
         /\ w \notin Touched
  /\ (worldCall.op = "heartbeatWorld" /\ worldCall.worldId \in WorldIds) =>
       (worldCall.before[worldCall.worldId] = "inactive" =>
          /\ worldStatus[worldCall.worldId].status = "running"
          /\ worldCall.started = {worldCall.worldId})

\* A heartbeat reached a world stopped by the developer after the idle
\* timeout had passed: its lastViewed was refreshed, its engine's last step
\* is older than the engine timeout, and it is still stopped.
C29_Witness ==
  /\ worldCall.op = "heartbeatWorld"
  /\ worldCall.worldId \in WorldIds
  /\ worldCall.before[worldCall.worldId] = "stoppedByDeveloper"
  /\ worldCall.now > Epoch + IDLE_WORLD_TIMEOUT
  /\ worldStatus[worldCall.worldId].lastViewed = {worldCall.now}
  /\ worldCall.worldId \in
       {w \in WorldIds : dead(Value(engines[w]), engineTimeout(worldCall.now))}

\* ---------------------------------------------------------------------
\* The waits of sendInputWithRetry (agentOperations.ts lines 24-40).

\* delayMs is a real number of milliseconds; it is kept as a whole number of
\* 1/PerMs ms, which is exact for the integral jitters drawn below: the
\* delay reaches the cap before its fifth multiplication by 1.7.
PerMs == 100000
Ms(n) == n * PerMs

\* Values of Math.random() * 350 (line 26) and Math.random() * 200 (line 38),
\* both in [0, n).
FirstJitter == {0, 175, 349}
LaterJitter == {0, 199}

min(a, b) == IF a < b THEN a ELSE b

nextDelay_Uncapped(delayMs, jitter) == delayMs + (7 * delayMs) \div 10 + Ms(jitter)
\* Line 38: Math.min(2000, delayMs * 1.7 + Math.random() * 200).
nextDelay(delayMs, jitter) == min(Ms(2000), delayMs + (7 * delayMs) \div 10 + Ms(jitter))

\* Lines 24-26: the call starts.
BackoffStart(jitter) ==
  /\ backoff.outcome = "none"
  /\ backoff' = [attempt |-> 0, delayMs |-> Ms(150 + jitter), waits |-> <<>>,
                 outcome |-> "running"]
  /\ UNCHANGED <<retryVars, doVars, rememberVars, moveVars, convVars, routeVars, cacheVars,
                 worldVars, poiVars>>

\* Lines 31-39: sendInput failed on the inputs-table conflict with attempts
\* left; the loop sleeps delayMs and lengthens it.
BackoffSleep(jitter) ==
  /\ backoff.outcome = "running"
  /\ ~GiveUp(OCCError, backoff.attempt)
  /\ backoff' = [backoff EXCEPT !.waits = Append(@, backoff.delayMs),
                                !.delayMs = nextDelay(@, jitter),
                                !.attempt = @ + 1]
  /\ UNCHANGED <<retryVars, doVars, rememberVars, moveVars, convVars, routeVars, cacheVars,
                 worldVars, poiVars>>

\* Line 30: sendInput returned.
BackoffReturn ==
  /\ backoff.outcome = "running"
  /\ backoff' = [backoff EXCEPT !.outcome = "returned"]
  /\ UNCHANGED <<retryVars, doVars, rememberVars, moveVars, convVars, routeVars, cacheVars,
                 worldVars, poiVars>>

\* Lines 32-36: sendInput failed and the error is rethrown.
BackoffThrow(message) ==
  /\ backoff.outcome = "running"
  /\ GiveUp(message, backoff.attempt)
  /\ backoff' = [backoff EXCEPT !.outcome = "thrown"]
  /\ UNCHANGED <<retryVars, doVars, rememberVars, moveVars, convVars, routeVars, cacheVars,
                 worldVars, poiVars>>

InitBackoff ==
  /\ RetryStart
  /\ DoIdle
  /\ RememberIdle
  /\ MoveIdle
  /\ ConvIdle
  /\ RouteIdle
  /\ CacheIdle
  /\ WorldIdle
  /\ PoiIdle
  /\ pc = [w \in Workers |-> "idle"]
  /\ params = [w \in Workers |-> NoParams]
  /\ submits = [w \in Workers |-> 0]
  /\ backoff = NoBackoff

NextBackoff ==
  \/ \E jitter \in FirstJitter : BackoffStart(jitter)
  \/ \E jitter \in LaterJitter : BackoffSleep(jitter)
  \/ BackoffReturn
  \/ \E message \in {OCCError, InternalError} : BackoffThrow(message)

SpecBackoff == InitBackoff /\ [][NextBackoff]_vars

\* ------------------------------------------------------------------ C39

RECURSIVE SumOf(_)
SumOf(seq) == IF seq = <<>> THEN 0 ELSE Head(seq) + SumOf(Tail(seq))

\* C39: the first wait of a sendInputWithRetry call is at least 150 ms and
\* below 500 ms, each later wait is at least as long as the one before it, no
\* wait exceeds 2000 ms, and the waits of one call add up to at most
\* (maxAttempts - 1) * 2000 ms.
C39_CappedBackoff ==
  LET waits == backoff.waits IN
  /\ waits # <<>> => (Ms(150) <= waits[1] /\ waits[1] < Ms(500))
  /\ \A i \in 2..Len(waits) : waits[i] >= waits[i - 1]
  /\ \A i \in 1..Len(waits) : waits[i] <= Ms(2000)
  /\ Len(waits) <= maxAttempts - 1
  /\ SumOf(waits) <= (maxAttempts - 1) * Ms(2000)

\* A call slept maxAttempts - 1 times, first below the cap, last at it.
C39_Witness ==
  /\ backoff.outcome = "thrown"
  /\ Len(backoff.waits) = maxAttempts - 1
  /\ backoff.waits[1] = Ms(499)
  /\ backoff.waits[2] < Ms(2000)
  /\ backoff.waits[maxAttempts - 1] = Ms(2000)

\* ------------------------------------------------------------------ C38

MissingEntity == {ConversationNotFound, EngineNotFound, WorldNotFound}

\* The read of worker w failed for the i-th time and the action ended on it.
AbortedOn(w, i) ==
  /\ i = Len(readErrLog[w])
  /\ pc[w] = "thrown"
  /\ ~readOk[w]
  /\ err[w] = readErrLog[w][i]

\* C38 as stated: a not-found error of the read for the conversation, the
\* engine or the world is retried while read attempts are left; none aborts
\* the action on its first occurrence.
C38_MissingEntityRetried ==
  \A w \in Workers :
    \A i \in 1..Len(readErrLog[w]) :
      (readErrLog[w][i] \in MissingEntity /\ i < readMaxAttempts) => ~AbortedOn(w, i)

\* C38: a not-found error of the read for the conversation is retried with
\* the read backoff while read attempts are left; a not-found error for the
\* engine or the world aborts the action at once, on its first occurrence.
C38_ConversationRetried ==
  \A w \in Workers :
    \A i \in 1..Len(readErrLog[w]) :
      /\ (readErrLog[w][i] = ConversationNotFound /\ i < readMaxAttempts) => ~AbortedOn(w, i)
      /\ readErrLog[w][i] \in {EngineNotFound, WorldNotFound} => AbortedOn(w, i)

\* A read missed the conversation, was retried, and the retry ended the
\* action because the world was not found.
C38_Witness ==
  \E w \in Workers :
    /\ Len(readErrLog[w]) = 2
    /\ readErrLog[w][1] = ConversationNotFound
    /\ readErrLog[w][2] = WorldNotFound
    /\ AbortedOn(w, 2)
    /\ reads[w] = 2

\* ------------------------------------------------------------------ C37

\* The player of worker w's cycle recently finished an activity or a
\* conversation.
RecentlyFinished(w) ==
  recentActivity(args[w].player, now[w]) \/ justLeftConversation(args[w].agent, now[w])

\* The fields among destination, activity and invitee that the input carries.
Carried(input) ==
  {f \in {"destination", "activity", "invitee"} : input[f] # Undefined}

\* C37: a finishDoSomething input submitted by agentDoSomething carries at
\* most one of destination, activity and invitee: a destination exactly when
\* the player is not moving and recently finished an activity or a
\* conversation, an activity exactly when the player is not moving and did
\* neither, an invitee only when the player is already moving.
C37_OneOfThree ==
  \A w \in Workers :
    (submits[w] >= 1 /\ params[w].name = "finishDoSomething") =>
      /\ Cardinality(Carried(params[w])) <= 1
      /\ params[w].destination # Undefined <=> (~Moving(w) /\ RecentlyFinished(w))
      /\ params[w].activity # Undefined <=> (~Moving(w) /\ ~RecentlyFinished(w))
      /\ params[w].invitee # Undefined => Moving(w)

\* A standing player whose agent recently tried to invite, but finished
\* neither an activity nor a conversation recently, submitted an activity.
C37_Witness ==
  \E w \in Workers :
    /\ pc[w] = "returned" /\ ~Moving(w) /\ ~RecentlyFinished(w)
    /\ recentlyAttemptedInvite(args[w].agent, now[w])
    /\ Carried(params[w]) = {"activity"}

\* ------------------------------------------------------------------ C36

\* C36: under every interleaving of heartbeatWorld and stopInactiveWorlds a
\* world's engine is started only on the transition from inactive to running
\* and stopped only on the transition from running to inactive, which is
\* taken only for a running world not viewed within the idle timeout; so for
\* each world startEngine and stopEngine alternate, neither called twice in
\* a row.
C36_StartStopAlternate ==
  /\ \A w \in WorldIds :
       /\ engineCalls[w] = "startEngine" <=> worldStatus[w].status = "running"
  /\ \A w \in worldCall.started :
       /\ worldCall.callsBefore[w] = "stopEngine"
       /\ worldCall.before[w] = "inactive" /\ worldStatus[w].status = "running"
  /\ \A w \in worldCall.stopped :
       /\ worldCall.callsBefore[w] = "startEngine"
       /\ worldCall.before[w] = "running" /\ worldStatus[w].status = "inactive"
       /\ \/ worldStatus[w].lastViewed = Undefined
          \/ Value(worldStatus[w].lastViewed) <= worldCall.now - IDLE_WORLD_TIMEOUT

\* A world that was running at set-up and was stopped for idleness is
\* restarted by a heartbeat.
C36_Witness ==
  /\ worldCall.op = "heartbeatWorld"
  /\ worldCall.started = {worldCall.worldId}
  /\ worldCall.callsBefore[worldCall.worldId] = "stopEngine"
  /\ engineCalls[worldCall.worldId] = "startEngine"
  /\ worldStatus[worldCall.worldId].lastViewed = {Epoch + IDLE_WORLD_TIMEOUT + 1}
  /\ engines[worldCall.worldId] = {[currentTime |-> Undefined]}

\* ------------------------------------------------------------------ C33

\* One round of shortening: the least length known so far of a way from the
\* mover's position to each position, by one more unblocked move.
RECURSIVE shortest(_, _, _)
shortest(map, otherPositions, known) ==
  LET steps == UNION {{[to |-> n.position,
                         length |-> known[pos] + distance(pos, n.position)] :
                          n \in neighbors(pos)} : pos \in DOMAIN known}
      open == {s \in steps : ~blocked(map, otherPositions, s.to)}
      better == {s \in open : s.to \notin DOMAIN known \/ s.length < known[s.to]}
      least(pos) == CHOOSE l \in {s.length : s \in {b \in better : b.to = pos}} :
                      \A s \in better : s.to = pos => l <= s.length
      cells == {s.to : s \in better}
  IN IF better = {} THEN known
     ELSE shortest(map, otherPositions,
                   [pos \in DOMAIN known \cup cells |->
                      IF pos \in cells THEN least(pos) ELSE known[pos]])

\* The least length of a sequence of unblocked moves from the mover's position
\* to each position it can get to, in the world the call saw.
shortestLengths ==
  shortest(worldMap, call.others, [pos \in call.position |-> 0])

\* The length of a dense path: the sum of its moves.
RECURSIVE lengthOf(_)
lengthOf(densePath) ==
  IF Len(densePath) <= 1 THEN 0
  ELSE distance(densePath[1].position, densePath[2].position) + lengthOf(Tail(densePath))

\* C33: for every destination that can be reached, the path the search of a
\* findRoute call that missed the cache computes is a shortest one: it ends
\* on the destination and its length is the least over all sequences of
\* unblocked moves from the mover's position to it.
C33_ShortestPath ==
  (RouteReturned /\ ~call.hit /\ DestinationReachable) =>
    /\ fresh.kind = "route"
    /\ fresh.densePath[Len(fresh.densePath)].position = Value(call.destination)
    /\ lengthOf(fresh.densePath) = shortestLengths[Value(call.destination)]

\* A mover of the loop map got a shortest path around another player, longer
\* than the Manhattan distance to the destination.
C33_Witness ==
  /\ RouteReturned /\ ~call.hit /\ DestinationReachable
  /\ worldMap = LoopMap
  /\ call.others # {}
  /\ lengthOf(fresh.densePath) = shortestLengths[Value(call.destination)]
  /\ lengthOf(fresh.densePath)
       > manhattanDistance(Value(call.position), Value(call.destination))

\* ------------------------------------------------------------------ C34

\* The candidates the search holds: the one in hand, the best so far, and
\* those in the heap.
Candidates == current \cup bestCandidate \cup minheap

\* The move from `from` to `to` snaps along the x axis (the y axis) to one of
\* the two grid lines next to `from` and keeps the other coordinate.
SnapX(from, to) ==
  /\ ~integral(from.x)
  /\ to.x \in {floor(from.x), floor(from.x) + Scale}
  /\ to.y = from.y
SnapY(from, to) ==
  /\ ~integral(from.y)
  /\ to.y \in {floor(from.y), floor(from.y) + Scale}
  /\ to.x = from.x

\* The move is one of the four unit moves to an adjacent tile.
UnitMove(from, to) ==
  \/ to.y = from.y /\ abs(to.x - from.x) = Scale
  \/ to.x = from.x /\ abs(to.y - from.y) = Scale

\* C34: a move from a position that is non-integral on an axis snaps along a
\* non-integral axis only, to one of the two adjacent grid lines, keeping the
\* other coordinate; a move is one of the four unit moves to an adjacent
\* tile only from a position integral on both axes, where every move is one.
C34_SnapFirst ==
  \A c \in Candidates :
    c.prev # Undefined =>
      LET from == Value(c.prev).position
          to == c.position
      IN IF integral(from.x) /\ integral(from.y)
         THEN UnitMove(from, to)
         ELSE SnapX(from, to) \/ SnapY(from, to)

\* From a start between two tiles of a row the search made a snap along x
\* and, from where it landed, a unit move.
C34_Witness ==
  \E c, d \in Candidates :
    /\ c.prev # Undefined /\ d.prev = {c}
    /\ Value(c.prev).prev = Undefined
    /\ integral(Value(c.prev).position.y)
    /\ SnapX(Value(c.prev).position, c.position)
    /\ UnitMove(c.position, d.position)

\* ------------------------------------------------------------------ C35

\* No cell of the table `after` holds a costlier candidate than it held in
\* `before`, and some cell is new or holds a cheaper one.
Lowered(before, after) ==
  /\ \A pos \in DOMAIN before :
       pos \in DOMAIN after /\ after[pos].cost <= before[pos].cost
  /\ \E pos \in DOMAIN after :
       pos \notin DOMAIN before \/ after[pos].cost < before[pos].cost

\* A turn of the loop ends the search, or lowers the table, or leaves the
\* table as it is and takes a candidate out of the heap.
Progress ==
  \/ routePc' = "build"
  \/ Lowered(minDistances, minDistances')
  \/ minDistances' = minDistances /\ minheap' \subseteq minheap /\ minheap' # minheap

\* C35: findRoute terminates for every start, destination and placement of
\* the other players, the destination reachable or not: every turn of the
\* search loop makes progress in an order with no infinite descent (the table
\* has finitely many cells, whose costs are non-negative and only fall, and
\* the heap is finite), and a search under way comes to empty the heap or to
\* pop the destination.
C35_Terminates ==
  /\ [][SearchStep => Progress]_vars
  /\ (routePc = "search") ~> (routePc = "build")

\* The search of an unreachable destination has emptied the heap after
\* writing several cells of the table.
C35_Witness ==
  /\ routePc = "build"
  /\ current = Undefined
  /\ Value(bestCandidate).length > 0
  /\ Cardinality(DOMAIN minDistances) >= 3

\* ------------------------------------------- points of interest

\* A place id is the sequence of the UTF-16 code units of its characters:
\* "", "A", "AB", "ChI".
EmptyId == <<>>
PlaceIds == {EmptyId, <<65>>, <<65, 66>>, <<67, 104, 73>>}
Place(id, name) == [place_id |-> id, name |-> name]
\* The lists an import is called with: one place, two places, a list that
\* names a place twice, and a list that names again a place of another list.
PlaceLists ==
  {<<Place(<<65>>, "Alta")>>,
   <<Place(<<65, 66>>, "Abbey"), Place(<<67, 104, 73>>, "Chapel")>>,
   <<Place(EmptyId, "Nameless"), Place(EmptyId, "Nameless again")>>,
   <<Place(<<67, 104, 73>>, "Chapel Hill"), Place(<<65>>, "Alta")>>}

\* Array.prototype.reduce with (acc, ch) => acc * 31 + ch.charCodeAt(0).
RECURSIVE reduce(_, _)
reduce(acc, codes) ==
  IF codes = <<>> THEN acc ELSE reduce(acc * 31 + Head(codes), Tail(codes))
max(a, b) == IF a > b THEN a ELSE b

\* aiTown/poi.ts lines 55-59: the tile an import gives a place on a map.
importTile(place_id, map) ==
  LET w == max(1, map.width - 2)
      h == max(1, map.height - 2)
      hash == reduce(7, place_id)
  IN [tileX |-> 1 + (abs(hash) % w), tileY |-> 1 + (abs(hash \div 997) % h)]

backfillTile_Transposed(placeId, map) ==
  LET w == max(1, map.width - 2)
      h == max(1, map.height - 2)
      hash == reduce(7, placeId)
  IN [tileX |-> 1 + (abs(hash) % h), tileY |-> 1 + (abs(hash \div 997) % w)]
\* migrations/poi.ts lines 30-35: the tile the backfill gives a point.
backfillTile(placeId, map) ==
  LET w == max(1, map.width - 2)
      h == max(1, map.height - 2)
      hash == reduce(7, placeId)
  IN [tileX |-> 1 + (abs(hash) % w), tileY |-> 1 + (abs(hash \div 997) % h)]

existing_None(table, worldId, placeId) == Undefined
\* aiTown/poi.ts lines 47-50: the first point of the world with the place id.
existing(table, worldId, placeId) ==
  LET hits == {i \in DOMAIN table :
                 table[i].worldId = worldId /\ table[i].placeId = placeId}
  IN IF hits = {} THEN Undefined
     ELSE {table[CHOOSE i \in hits : \A j \in hits : i <= j]}

\* aiTown/poi.ts lines 45-71: the loop over the places, each query seeing
\* the inserts made before it in the same mutation.
RECURSIVE importAll(_, _, _, _)
importAll(table, map, worldId, places) ==
  IF places = <<>> THEN table
  ELSE LET p == Head(places)
           tile == IF map # Undefined THEN importTile(p.place_id, Value(map))
                   ELSE [tileX |-> 1, tileY |-> 1]
           row == [worldId |-> worldId, placeId |-> p.place_id, name |-> p.name,
                   tileX |-> {tile.tileX}, tileY |-> {tile.tileY}]
       IN IF existing(table, worldId, p.place_id) # Undefined
          THEN importAll(table, map, worldId, Tail(places))
          ELSE importAll(Append(table, row), map, worldId, Tail(places))

\* aiTown/poi.ts lines 14-73: importPointsOfInterest, one mutation.
ImportPointsOfInterest(worldId, places) ==
  /\ poiCall.calls < MaxPoiCalls
  /\ pointsOfInterest' = importAll(pointsOfInterest, maps[worldId], worldId, places)
  /\ poiCall' = [op |-> "import", worldId |-> worldId, places |-> places,
                 before |-> pointsOfInterest, updated |-> 0,
                 again |-> <<worldId, places>> \in poiCall.imported,
                 imported |-> poiCall.imported \cup {<<worldId, places>>},
                 backfills |-> poiCall.backfills, calls |-> poiCall.calls + 1]
  /\ UNCHANGED maps
  /\ UNCHANGED <<retryVars, doVars, rememberVars, moveVars, convVars, routeVars, cacheVars,
                 worldVars, backoffVars>>

\* migrations/poi.ts lines 19-21: both coordinates are numbers.
populated(poi) == poi.tileX # Undefined /\ poi.tileY # Undefined
\* migrations/poi.ts lines 18-37: what one turn of the loop makes of a point.
backfilled(poi, worldMaps) ==
  IF populated(poi) THEN poi
  ELSE IF worldMaps[poi.worldId] = Undefined THEN poi
  ELSE LET tile == backfillTile(poi.placeId, Value(worldMaps[poi.worldId]))
       IN [poi EXCEPT !.tileX = {tile.tileX}, !.tileY = {tile.tileY}]

\* migrations/poi.ts lines 12-41: backfillPoiTileCoordinates, one mutation.
BackfillPoiTileCoordinates ==
  /\ poiCall.calls < MaxPoiCalls
  /\ pointsOfInterest' = [i \in DOMAIN pointsOfInterest |->
                            backfilled(pointsOfInterest[i], maps)]
  /\ poiCall' = [op |-> "backfill", worldId |-> 0, places |-> <<>>,
                 before |-> pointsOfInterest,
                 updated |-> Cardinality(
                   {i \in DOMAIN pointsOfInterest :
                      /\ ~populated(pointsOfInterest[i])
                      /\ maps[pointsOfInterest[i].worldId] # Undefined}),
                 again |-> FALSE, imported |-> poiCall.imported,
                 backfills |-> poiCall.backfills + 1, calls |-> poiCall.calls + 1]
  /\ UNCHANGED maps
  /\ UNCHANGED <<retryVars, doVars, rememberVars, moveVars, convVars, routeVars, cacheVars,
                 worldVars, backoffVars>>

\* The maps of the first world: one too small to have an interior, and two
\* with one. The other worlds have no map.
PoiMaps == {[width |-> 2, height |-> 1], [width |-> 5, height |-> 4],
            [width |-> 12, height |-> 9]}
\* A point stored before points had tiles.
Legacy(worldId, id, name) ==
  [worldId |-> worldId, placeId |-> id, name |-> name, tileX |-> Undefined,
   tileY |-> Undefined]
\* The tables the calls start from: none, and ones with points stored before
\* points had tiles, in a world with a map and in one without.
LegacyTables ==
  {<<>>,
   <<Legacy(1, <<65>>, "Alta (old)"), Legacy(1, <<67, 104, 73>>, "Chapel (old)")>>,
   <<Legacy(1, <<65, 66>>, "Abbey (old)"), Legacy(2, <<65>>, "Alta (old)"),
     Legacy(1, EmptyId, "Nameless (old)")>>}

InitPoi ==
  /\ RetryStart
  /\ DoIdle
  /\ RememberIdle
  /\ MoveIdle
  /\ ConvIdle
  /\ RouteIdle
  /\ CacheIdle
  /\ WorldIdle
  /\ BackoffIdle
  /\ pc = [w \in Workers |-> "idle"]
  /\ params = [w \in Workers |-> NoParams]
  /\ submits = [w \in Workers |-> 0]
  /\ \E map \in PoiMaps :
       maps = [w \in WorldIds |-> IF w = 1 THEN {map} ELSE Undefined]
  /\ pointsOfInterest \in LegacyTables
  /\ poiCall = NoPoiCall

NextPoi ==
  \/ \E worldId \in WorldIds, places \in PlaceLists :
       ImportPointsOfInterest(worldId, places)
  \/ BackfillPoiTileCoordinates

SpecPoi == InitPoi /\ [][NextPoi]_vars

\* ------------------------------------------------------------------ C31

\* The points of one world with one place id.
PointsOf(table, worldId, placeId) ==
  {i \in DOMAIN table : table[i].worldId = worldId /\ table[i].placeId = placeId}
\* The table `after` begins with the rows of `before`, as they were.
KeepsRows(before, after) ==
  /\ Len(before) <= Len(after)
  /\ \A i \in DOMAIN before : after[i] = before[i]

\* C31: a world holds at most one point of interest per place id, also after
\* an import whose list names a place twice; an import leaves the points
\* there were as they were; and the import of a list that was imported to the
\* world before inserts nothing.
C31_OnePerPlace ==
  /\ \A w \in WorldIds, id \in PlaceIds :
       Cardinality(PointsOf(pointsOfInterest, w, id)) <= 1
  /\ poiCall.op = "import" =>
       /\ KeepsRows(poiCall.before, pointsOfInterest)
       /\ \A k \in DOMAIN poiCall.places :
            PointsOf(pointsOfInterest, poiCall.worldId, poiCall.places[k].place_id) # {}
       /\ poiCall.again => pointsOfInterest = poiCall.before

\* A list that names a place twice has been imported twice to a world, with
\* another call in between; the world holds the place under its first name.
C31_Witness ==
  /\ poiCall.op = "import"
  /\ poiCall.again
  /\ poiCall.calls = MaxPoiCalls
  /\ Len(poiCall.places) = 2
  /\ poiCall.places[1].place_id = poiCall.places[2].place_id
  /\ \E i \in DOMAIN pointsOfInterest :
       /\ pointsOfInterest[i].worldId = poiCall.worldId
       /\ pointsOfInterest[i].placeId = poiCall.places[1].place_id
       /\ pointsOfInterest[i].name = poiCall.places[1].name
       /\ populated(pointsOfInterest[i])

\* ------------------------------------------------------------------ C32

\* The points a backfill run is to fill: without both coordinates, in a world
\* that has a map.
Unfilled(table) ==
  {i \in DOMAIN table : ~populated(table[i]) /\ maps[table[i].worldId] # Undefined}

\* C32: a backfill run gives every point without tile coordinates whose world
\* has a map the tile importPointsOfInterest computes for its place id on that
\* map, leaves every other point as it was, reports the number of points it
\* filled, and any run after the first reports 0.
C32_BackfillMirrorsImport ==
  poiCall.op = "backfill" =>
    /\ Len(pointsOfInterest) = Len(poiCall.before)
    /\ \A i \in DOMAIN poiCall.before :
         LET old == poiCall.before[i]
             tile == importTile(old.placeId, Value(maps[old.worldId]))
         IN pointsOfInterest[i] =
              IF i \in Unfilled(poiCall.before)
              THEN [old EXCEPT !.tileX = {tile.tileX}, !.tileY = {tile.tileY}]
              ELSE old
    /\ poiCall.updated = Cardinality(Unfilled(poiCall.before))
    /\ poiCall.backfills > 1 => poiCall.updated = 0

\* A run has filled two points, one of them off the first interior row and
\* column, beside an imported point and a point of a world without a map.
C32_Witness ==
  /\ poiCall.op = "backfill"
  /\ poiCall.updated >= 2
  /\ \E i, j, k \in DOMAIN poiCall.before :
       /\ ~populated(poiCall.before[i])
       /\ pointsOfInterest[i].tileX \notin {Undefined, {1}}
       /\ pointsOfInterest[i].tileY \notin {Undefined, {1}}
       /\ populated(poiCall.before[j])
       /\ maps[poiCall.before[k].worldId] = Undefined
       /\ ~populated(pointsOfInterest[k])

====
